---- MODULE Spec2Model ----
(***************************************************************************)
(* A model of the agent harness: the benchmark session drivers (main.py),  *)
(* the usage-tracking model wrapper, the tool adapter base class, the      *)
(* generated-code sandbox, the structured-step (SGR) loop and the agent    *)
(* runtimes (run_agent of agent_dev.py and hf_store_agent.py).             *)
(*                                                                         *)
(* Each component has its own specification (SpecDriver, SpecUsage,        *)
(* SpecTool, SpecSandbox, SpecSGR); a specification leaves the variables   *)
(* of the other components at their idle values.  SpecRuntime runs the     *)
(* driver loop with run_agent expanded into its steps.                     *)
(***************************************************************************)
EXTENDS Integers, Sequences, FiniteSets, TLC

VARIABLES
    \* ---- session driver (main.py of each runtime) ----
    d_driver,     \* which main.py is running
    d_pc,         \* position of the driver script
    d_tasks,      \* status.tasks: the ordered task list of the session
    d_i,          \* the loop index i of enumerate(status.tasks)
    d_calls,      \* the calls made so far on core / run_agent, in order
    d_raised,     \* tasks whose run_agent raised
    d_printed,    \* what print(e) wrote, in order
    \* ---- UsageTrackingModel ----
    u_variant,    \* which usage_tracking_model.py
    total_usage,  \* self.total_usage
    last_usage,   \* self.last_usage: <<>> is None, <<u>> a usage
    u_history,    \* the token_usage of every response so far (<<>> is None)
    u_returned,   \* what generate returned, per call
    \* ---- StoreAPITool._execute_api_call ----
    t_domain,     \* dev or store adapter library
    t_log,        \* the latest invocation: <<>> or <<[inputs, outcome]>>
    t_invocations, \* number of _execute_api_call invocations so far
    \* ---- generated-code sandbox (coder_agent.py) ----
    s_module,     \* coder_agent.py or coder_agent_copy.py
    s_atoms,      \* how the code string was put together
    s_code,       \* the code string
    s_pc,
    s_valid,      \* what validate_code returned: <<>> or <<[ok, msg]>>
    s_result,     \* the dict returned by the run function
    s_files,      \* files written by write_code_to_file
    s_procs,      \* interpreter processes spawned
    s_workers,    \* worker threads started
    s_raised,     \* the run function raised to its caller
    s_worker,     \* the daemon thread: "none", "running", "finished", "raised"
    s_stdout,     \* writes captured in stdout_buf
    s_stderr,     \* writes captured in stderr_buf
    s_timeout,    \* the join timeout has elapsed
    s_child,      \* what the interpreter process did (out-of-process mode)
    s_namespace,  \* the snippet's top-level variable `result`
    s_exec_result,\* exec_result of run_generated_code_inproc
    s_exec_error, \* str(exec_error) of run_generated_code_inproc
    s_ref,        \* the name the snippet looked up in its builtins, if any
    s_sys_stdout, \* the process-wide sys.stdout
    s_sys_stderr, \* the process-wide sys.stderr
    s_caller,     \* where the text went that the caller printed after the return
    \* ---- SGR loop (store_agent.py run_agent) ----
    g_pc,
    g_i,          \* the loop variable i of range(20)
    log,          \* the conversation transcript
    job,          \* the parsed NextStep of the current step
    g_messages,   \* messages= of the latest model call
    g_model_calls,
    g_log_llm,    \* number of api.log_llm calls
    g_dispatched, \* number of store_api.dispatch calls
    g_checkouts,  \* number of Req_CheckoutBasket requests dispatched
    g_errors,     \* number of ApiException raised by dispatch
    g_reports,    \* number of steps whose function was a completion report
    g_exit,       \* how the loop was left
    g_console,    \* the latest line printed by run_agent
    \* ---- agent runtimes (run_agent of agent_dev.py / hf_store_agent.py) ----
    r_pc,         \* position inside run_agent
    r_usage,      \* usage_tracking_model.total_usage of the one model instance
    r_generated,  \* the metered model calls of the process: [task, usage]
    r_log_llm,    \* the api.log_llm calls made, in order
    r_logged,     \* the logging.info markers emitted: [task, marker]
    r_handlers,   \* the handlers attached to the root logger
    r_closed,     \* the handlers closed and removed from the root logger
    r_files,      \* the log files created on disk
    r_lines,      \* the lines written to log files: [file, task, marker]
    r_agents,     \* the agents constructed for the current run
    r_faults      \* failures injected so far

driver_vars == <<d_driver, d_pc, d_tasks, d_i, d_calls, d_raised, d_printed>>
usage_vars == <<u_variant, total_usage, last_usage, u_history, u_returned>>
tool_vars == <<t_domain, t_log, t_invocations>>
sandbox_vars == <<s_module, s_atoms, s_code, s_pc, s_valid, s_result, s_files, s_procs,
                  s_workers, s_raised, s_worker, s_stdout, s_stderr, s_timeout,
                  s_child, s_namespace, s_exec_result, s_exec_error, s_ref,
                  s_sys_stdout, s_sys_stderr, s_caller>>
sgr_vars == <<g_pc, g_i, log, job, g_messages, g_model_calls, g_log_llm,
              g_dispatched, g_checkouts, g_errors, g_reports, g_exit, g_console>>
runtime_vars == <<r_pc, r_usage, r_generated, r_log_llm, r_logged, r_handlers, r_closed,
                  r_files, r_lines, r_agents, r_faults>>
vars == <<driver_vars, usage_vars, tool_vars, sandbox_vars, sgr_vars, runtime_vars>>

not_driver == <<usage_vars, tool_vars, sandbox_vars, sgr_vars, runtime_vars>>
not_usage == <<driver_vars, tool_vars, sandbox_vars, sgr_vars, runtime_vars>>
not_tool == <<driver_vars, usage_vars, sandbox_vars, sgr_vars, runtime_vars>>
not_sandbox == <<driver_vars, usage_vars, tool_vars, sgr_vars, runtime_vars>>
not_sgr == <<driver_vars, usage_vars, tool_vars, sandbox_vars, runtime_vars>>
not_runtime == <<usage_vars, tool_vars, sandbox_vars, sgr_vars>>

Min(a, b) == IF a <= b THEN a ELSE b

\* A component that a specification does not run.
DriverIdle ==
    /\ d_driver = "none" /\ d_pc = "idle" /\ d_tasks = <<>> /\ d_i = 0
    /\ d_calls = <<>> /\ d_raised = {} /\ d_printed = <<>>
UsageIdle ==
    /\ u_variant = "none" /\ total_usage = <<>> /\ last_usage = <<>>
    /\ u_history = <<>> /\ u_returned = <<>>
ToolIdle == t_domain = "none" /\ t_log = <<>> /\ t_invocations = 0
SandboxIdle ==
    /\ s_module = "none" /\ s_atoms = <<>> /\ s_code = <<>> /\ s_pc = "idle"
    /\ s_valid = <<>> /\ s_result = <<>> /\ s_files = 0 /\ s_procs = 0
    /\ s_workers = 0 /\ s_raised = FALSE
    /\ s_worker = "none" /\ s_stdout = 0 /\ s_stderr = 0 /\ s_timeout = FALSE
    /\ s_child = <<>> /\ s_namespace = "none" /\ s_exec_result = "none"
    /\ s_exec_error = "none" /\ s_ref = <<>> /\ s_sys_stdout = "none"
    /\ s_sys_stderr = "none" /\ s_caller = "none"
SgrIdle ==
    /\ g_pc = "idle" /\ g_i = 0 /\ log = <<>> /\ job = <<>> /\ g_messages = <<>>
    /\ g_model_calls = 0 /\ g_log_llm = 0 /\ g_dispatched = 0 /\ g_errors = 0
    /\ g_checkouts = 0
    /\ g_reports = 0 /\ g_exit = "none" /\ g_console = "none"
RuntimeIdle ==
    /\ r_pc = "idle" /\ r_usage = <<>> /\ r_generated = <<>> /\ r_log_llm = <<>>
    /\ r_logged = {} /\ r_handlers = {} /\ r_closed = {} /\ r_files = {} /\ r_lines = {}
    /\ r_agents = <<>> /\ r_faults = 0

(***************************************************************************)
(* SESSION DRIVERS                                                         *)
(* agent_dev/main.py, hf_store_agent/main.py,                              *)
(* hf_store_agent_system_prompt_redefined/main.py,                         *)
(* hf_store_agent_with_tool_agent/main.py.  The four scripts have the same *)
(* loop; hf_store_agent/main.py alone leaves it with a break.              *)
(***************************************************************************)
MaxTasks == 4

Drivers == {"agent_dev", "hf_store_agent",
            "hf_store_agent_system_prompt_redefined",
            "hf_store_agent_with_tool_agent"}

\* hf_store_agent/main.py:46  "if i == 2: break"
DemoBreakIndex == 2

Call(op, task) == [op |-> op, task |-> task]
NoTask == 0

\* the task bound by "for i, task in enumerate(status.tasks)"
task == d_tasks[d_i + 1]

DriverInit ==
    /\ d_driver \in Drivers
    /\ d_pc = "start_session"
    /\ d_tasks = <<>>
    /\ d_i = 0
    /\ d_calls = <<>>
    /\ d_raised = {}
    /\ d_printed = <<>>

start_session ==
    /\ d_pc = "start_session"
    /\ d_calls' = Append(d_calls, Call("start_session", NoTask))
    /\ d_pc' = "session_status"
    /\ UNCHANGED <<d_driver, d_tasks, d_i, d_raised, d_printed>>
    /\ UNCHANGED not_driver

\* status = core.session_status(res.session_id): the service decides the list
session_status ==
    /\ d_pc = "session_status"
    /\ \E n \in 0..MaxTasks : d_tasks' = [k \in 1..n |-> k]
    /\ d_calls' = Append(d_calls, Call("session_status", NoTask))
    /\ d_i' = 0
    /\ d_pc' = "for"
    /\ UNCHANGED <<d_driver, d_raised, d_printed>>
    /\ UNCHANGED not_driver

\* a plausible slip: agent_dev/main.py:67-68 "if i == 0: continue" left active
for_next_skipping_first ==
    /\ d_pc = "for"
    /\ IF d_i = 0 /\ Len(d_tasks) > 0
       THEN d_i' = 1 /\ d_pc' = "for"
       ELSE /\ d_pc' = IF d_i < Len(d_tasks) THEN "start_task" ELSE "submit_session"
            /\ UNCHANGED d_i
    /\ UNCHANGED <<d_driver, d_tasks, d_calls, d_raised, d_printed>>
    /\ UNCHANGED not_driver

\* the head of the for loop: the next task, or the end of the list
for_next ==
    /\ d_pc = "for"
    /\ d_pc' = IF d_i < Len(d_tasks) THEN "start_task" ELSE "submit_session"
    /\ UNCHANGED <<d_driver, d_tasks, d_i, d_calls, d_raised, d_printed>>
    /\ UNCHANGED not_driver

\* a plausible slip: the start_task call left out of the loop body
start_task_omitted ==
    /\ d_pc = "start_task"
    /\ d_pc' = "run_agent"
    /\ UNCHANGED <<d_driver, d_tasks, d_i, d_calls, d_raised, d_printed>>
    /\ UNCHANGED not_driver

start_task ==
    /\ d_pc = "start_task"
    /\ d_calls' = Append(d_calls, Call("start_task", task))
    /\ d_pc' = "run_agent"
    /\ UNCHANGED <<d_driver, d_tasks, d_i, d_raised, d_printed>>
    /\ UNCHANGED not_driver

\* a plausible slip: complete_task inside the try, skipped by an exception
try_run_agent_skipping_complete ==
    /\ d_pc = "run_agent"
    /\ d_calls' = Append(d_calls, Call("run_agent", task))
    /\ \E outcome \in {"return", "Exception"} :
          IF outcome = "Exception"
          THEN /\ d_raised' = d_raised \cup {task}
               /\ d_printed' = Append(d_printed, task)
               /\ d_i' = d_i + 1
               /\ d_pc' = "for"
          ELSE /\ UNCHANGED <<d_raised, d_printed, d_i>>
               /\ d_pc' = "complete_task"
    /\ UNCHANGED <<d_driver, d_tasks>>
    /\ UNCHANGED not_driver

\* try: run_agent(...)  except Exception as e: print(e)
try_run_agent ==
    /\ d_pc = "run_agent"
    /\ d_calls' = Append(d_calls, Call("run_agent", task))
    /\ \E outcome \in {"return", "Exception"} :
          IF outcome = "Exception"
          THEN /\ d_raised' = d_raised \cup {task}
               /\ d_printed' = Append(d_printed, task)
          ELSE UNCHANGED <<d_raised, d_printed>>
    /\ d_pc' = "complete_task"
    /\ UNCHANGED <<d_driver, d_tasks, d_i>>
    /\ UNCHANGED not_driver

\* a plausible slip: the session submitted inside the loop body
complete_task_submitting ==
    /\ d_pc = "complete_task"
    /\ d_calls' = d_calls \o <<Call("complete_task", task),
                               Call("submit_session", NoTask)>>
    /\ d_i' = d_i + 1
    /\ d_pc' = "for"
    /\ UNCHANGED <<d_driver, d_tasks, d_raised, d_printed>>
    /\ UNCHANGED not_driver

\* result = core.complete_task(task), the score print, and in
\* hf_store_agent/main.py the "if i == 2: break" that ends the body
complete_task ==
    /\ d_pc = "complete_task"
    /\ d_calls' = Append(d_calls, Call("complete_task", task))
    /\ IF d_driver = "hf_store_agent" /\ d_i = DemoBreakIndex
       THEN /\ d_pc' = "submit_session"
            /\ UNCHANGED d_i
       ELSE /\ d_i' = d_i + 1
            /\ d_pc' = "for"
    /\ UNCHANGED <<d_driver, d_tasks, d_raised, d_printed>>
    /\ UNCHANGED not_driver

submit_session ==
    /\ d_pc = "submit_session"
    /\ d_calls' = Append(d_calls, Call("submit_session", NoTask))
    /\ d_pc' = "done"
    /\ UNCHANGED <<d_driver, d_tasks, d_i, d_raised, d_printed>>
    /\ UNCHANGED not_driver

DriverNext ==
    \/ start_session
    \/ session_status
    \/ for_next
    \/ start_task
    \/ try_run_agent
    \/ complete_task
    \/ submit_session

InitDriver ==
    DriverInit /\ UsageIdle /\ ToolIdle /\ SandboxIdle /\ SgrIdle /\ RuntimeIdle

SpecDriver == InitDriver /\ [][DriverNext]_vars

\* The script is one synchronous thread: a step that can run does run.
FairDriver == SpecDriver /\ WF_vars(DriverNext)

(***************************************************************************)
(* Claims about the session drivers                                        *)
(***************************************************************************)
Count(op, t) == Cardinality({p \in DOMAIN d_calls : d_calls[p] = Call(op, t)})
OnceEach(t) ==
    /\ Count("start_task", t) = 1
    /\ Count("run_agent", t) = 1
    /\ Count("complete_task", t) = 1
Never(t) ==
    /\ Count("start_task", t) = 0
    /\ Count("run_agent", t) = 0
    /\ Count("complete_task", t) = 0
SubmitPositions == {p \in DOMAIN d_calls : d_calls[p].op = "submit_session"}
Opened == \E p \in DOMAIN d_calls : d_calls[p].op = "start_session"
Submitted == SubmitPositions # {}
IsTaskCall(c) == c.op \in {"start_task", "run_agent", "complete_task"}
TaskCalls == SelectSeq(d_calls, IsTaskCall)
\* how many tasks of the list a driver's loop goes through: all of them, but
\* at most the first three in hf_store_agent/main.py
Processed ==
    IF d_driver = "hf_store_agent"
    THEN Min(Len(d_tasks), DemoBreakIndex + 1)
    ELSE Len(d_tasks)

\* What a raised run_agent must be followed by, for the tasks before `last`.
AfterRaise(last) ==
    /\ \A p \in DOMAIN d_calls :
          (d_calls[p].op = "run_agent" /\ d_calls[p].task \in d_raised) =>
             /\ \E q \in DOMAIN d_printed : d_printed[q] = d_calls[p].task
             /\ p < Len(d_calls) =>
                   d_calls[p + 1] = Call("complete_task", d_calls[p].task)
    /\ d_pc = "done" =>
          \A k \in 1..Len(d_tasks) : d_tasks[k] \in d_raised =>
             /\ Count("complete_task", d_tasks[k]) = 1
             /\ k < last => OnceEach(d_tasks[k + 1])

C2_Theorem ==
    \A p \in DOMAIN TaskCalls :
        TaskCalls[p] =
            Call(<<"start_task", "run_agent", "complete_task">>[((p - 1) % 3) + 1],
                 d_tasks[((p - 1) \div 3) + 1])

C2_Witness == Len(TaskCalls) >= 6 /\ d_raised # {}

\* C3 (safety part): at most one submit, nothing after it, and the call
\* before it is complete_task of the last task that was started.
C3_SubmitOnceAfterLast ==
    /\ Cardinality(SubmitPositions) <= 1
    /\ \A p \in SubmitPositions :
          /\ p = Len(d_calls)
          /\ TaskCalls # <<>> =>
                /\ d_calls[p - 1].op = "complete_task"
                /\ d_calls[p - 1] = TaskCalls[Len(TaskCalls)]
                /\ \A q \in DOMAIN TaskCalls :
                      TaskCalls[q].op = "start_task" =>
                         TaskCalls[q].task <= d_calls[p - 1].task

\* C3: a driver that opened a session eventually submits it, exactly once,
\* after complete_task of the last task it processes, whatever each run did.
C3_Theorem == [](C3_SubmitOnceAfterLast) /\ (Opened ~> Submitted)

C3_Witness ==
    /\ Submitted /\ Len(d_tasks) >= 2
    /\ d_tasks[Len(d_tasks)] \in d_raised
    /\ d_tasks[1] \notin d_raised

MaxCalls == 3
MaxTokens == 2

UsageVariants == {"hf_store_agent", "hf_store_agent_system_prompt_tools_changed"}

\* response.token_usage of the underlying model: None (<<>>) or the counts
TokenUsages ==
    {<<>>} \cup {<<[input_tokens |-> a, output_tokens |-> b]>> :
                    a \in 0..MaxTokens, b \in 0..MaxTokens}
\* the ChatMessage returned by super().generate
Responses == [content : {"ChatMessage"}, token_usage : TokenUsages]

\* the usage built from response.token_usage in the if branch
UsageOf(variant, tu) ==
    IF variant = "hf_store_agent"
    THEN [input_tokens |-> tu.input_tokens, output_tokens |-> tu.output_tokens]
    ELSE [prompt_tokens |-> tu.input_tokens,
          completion_tokens |-> tu.output_tokens,
          total_tokens |-> tu.input_tokens + tu.output_tokens]

\* a plausible slip: "=" for "+=" on the totals
AddUsage_overwriting(variant, total, usage) == usage

\* self.total_usage[...] += ... , field by field
AddUsage(variant, total, usage) ==
    IF variant = "hf_store_agent"
    THEN [input_tokens |-> total.input_tokens + usage.input_tokens,
          output_tokens |-> total.output_tokens + usage.output_tokens]
    ELSE [prompt_tokens |-> total.prompt_tokens + usage.prompt_tokens,
          completion_tokens |-> total.completion_tokens + usage.completion_tokens,
          total_tokens |-> total.total_tokens + usage.total_tokens]

\* __init__: the counters at zero, last_usage None
UsageInit ==
    /\ u_variant \in UsageVariants
    /\ total_usage = IF u_variant = "hf_store_agent"
                     THEN [input_tokens |-> 0, output_tokens |-> 0]
                     ELSE [prompt_tokens |-> 0, completion_tokens |-> 0,
                           total_tokens |-> 0]
    /\ last_usage = <<>>
    /\ u_history = <<>>
    /\ u_returned = <<>>

\* a plausible slip: last_usage cleared when a response has no usage
generate_clearing_last ==
    /\ u_variant \in UsageVariants
    /\ Len(u_history) < MaxCalls
    /\ \E response \in Responses :
          /\ u_history' = Append(u_history, response.token_usage)
          /\ IF response.token_usage # <<>>
             THEN LET usage == UsageOf(u_variant, response.token_usage[1])
                  IN /\ last_usage' = <<usage>>
                     /\ total_usage' = AddUsage(u_variant, total_usage, usage)
             ELSE last_usage' = <<>> /\ UNCHANGED total_usage
          /\ u_returned' = Append(u_returned, response)
    /\ UNCHANGED u_variant
    /\ UNCHANGED not_usage

\* UsageTrackingModel.generate
generate ==
    /\ u_variant \in UsageVariants
    /\ Len(u_history) < MaxCalls
    /\ \E response \in Responses :
          /\ u_history' = Append(u_history, response.token_usage)
          /\ IF response.token_usage # <<>>
             THEN LET usage == UsageOf(u_variant, response.token_usage[1])
                  IN /\ last_usage' = <<usage>>
                     /\ total_usage' = AddUsage(u_variant, total_usage, usage)
             ELSE UNCHANGED <<last_usage, total_usage>>
          /\ u_returned' = Append(u_returned, response)
    /\ UNCHANGED u_variant
    /\ UNCHANGED not_usage

UsageNext == generate

InitUsage ==
    DriverIdle /\ UsageInit /\ ToolIdle /\ SandboxIdle /\ SgrIdle /\ RuntimeIdle

SpecUsage == InitUsage /\ [][UsageNext]_vars

(***************************************************************************)
(* Claims about the usage-tracking wrapper                                 *)
(***************************************************************************)
RECURSIVE SumOf(_, _)
SumOf(h, f) == IF h = <<>> THEN 0 ELSE h[1][1][f] + SumOf(Tail(h), f)

AllReported == \A k \in DOMAIN u_history : u_history[k] # <<>>
LastCall == u_history[Len(u_history)][1]

\* C5: after N generate calls that each report counts, total_usage is the
\* per-field sum of the N calls' counts (zero for N = 0) and last_usage holds
\* the counts of the most recent call only.
C5_Theorem ==
    AllReported =>
       /\ IF u_variant = "hf_store_agent"
          THEN total_usage =
                 [input_tokens |-> SumOf(u_history, "input_tokens"),
                  output_tokens |-> SumOf(u_history, "output_tokens")]
          ELSE total_usage =
                 [prompt_tokens |-> SumOf(u_history, "input_tokens"),
                  completion_tokens |-> SumOf(u_history, "output_tokens"),
                  total_tokens |-> SumOf(u_history, "input_tokens")
                                     + SumOf(u_history, "output_tokens")]
       /\ u_history = <<>> => last_usage = <<>>
       /\ u_history # <<>> =>
            IF u_variant = "hf_store_agent"
            THEN last_usage = <<[input_tokens |-> LastCall.input_tokens,
                                 output_tokens |-> LastCall.output_tokens]>>
            ELSE last_usage = <<[prompt_tokens |-> LastCall.input_tokens,
                                 completion_tokens |-> LastCall.output_tokens,
                                 total_tokens |-> LastCall.input_tokens
                                                    + LastCall.output_tokens]>>

C5_Witness ==
    /\ AllReported /\ Len(u_history) = MaxCalls
    /\ u_variant = "hf_store_agent_system_prompt_tools_changed"
    /\ total_usage.total_tokens > last_usage[1].total_tokens
    /\ last_usage[1].total_tokens > 0

(***************************************************************************)
(* TOOL ADAPTERS                                                           *)
(* StoreAPITool._execute_api_call, the same text in                        *)
(* agent_dev/agent_dev_tools.py and hf_store_agent/hf_store_agent_tools.py.*)
(***************************************************************************)
MaxInvocations == 2

ToolDomains == {"agent_dev_tools", "hf_store_agent_tools"}
Messages == {"m1", "m2"}
Fields == <<"a", "b">>

\* what a call inside the try block can raise: an ApiException (e.api_error.error
\* is its message) or another Exception (str(e) is its message)
Exceptions ==
    [class : {"ApiException"}, error : Messages, str : {"ApiException"}]
    \cup [class : {"Exception"}, error : {""}, str : Messages]
Returns(v) == [status |-> "returns", value |-> v]
Raises(e) == [status |-> "raises", value |-> e]

\* a response: None, a plain dict (a key is absent, None or set) or a pydantic
\* model (a field is unset, None or set)
FieldStates == {"unset", "none", "set"}
Results ==
    {[kind |-> "None", fields |-> [f \in {"a", "b"} |-> "unset"]]}
    \cup [kind : {"dict", "model"}, fields : [{"a", "b"} -> FieldStates]]

\* the calls of one invocation and what each does; a call that is not
\* reached (dispatch after a failed construction, the dump of no result) is
\* left at "not called"
NotCalled == [status |-> "not called", value |-> "-"]
ToolInputs ==
    LET all == [request : {Returns("request")} \cup {Raises(e) : e \in Exceptions},
                dispatch : {NotCalled} \cup {Returns(r) : r \in Results}
                              \cup {Raises(e) : e \in Exceptions},
                dump : {NotCalled, Returns("json")} \cup {Raises(e) : e \in Exceptions}]
        DumpReached(in) == /\ in.dispatch.status = "returns"
                           /\ in.dispatch.value.kind # "None"
    IN {in \in all :
          /\ (in.dispatch.status = "not called") <=> (in.request.status = "raises")
          /\ (in.dump.status = "not called") <=> ~DumpReached(in)}

RECURSIVE Join(_)
Join(parts) ==
    IF parts = <<>> THEN ""
    ELSE IF Len(parts) = 1 THEN parts[1]
    ELSE parts[1] \o "," \o Join(Tail(parts))

\* a plausible slip: exclude_none left out of the dump
model_dump_json_without_exclude_none(fields) ==
    LET Keep(f) == fields[f] # "unset"
        Part(f) == "\"" \o f \o "\":" \o (IF fields[f] = "none" THEN "null" ELSE "1")
        kept == SelectSeq(Fields, Keep)
    IN "{" \o Join([k \in DOMAIN kept |-> Part(kept[k])]) \o "}"

\* result.model_dump_json(exclude_none=True, exclude_unset=True)
model_dump_json(fields) ==
    LET Keep(f) == fields[f] = "set"
        Part(f) == "\"" \o f \o "\":1"
        kept == SelectSeq(Fields, Keep)
    IN "{" \o Join([k \in DOMAIN kept |-> Part(kept[k])]) \o "}"

\* json.dumps(result) of a plain dict: every key it holds, None as null
json_dumps(fields) ==
    LET Keep(f) == fields[f] # "unset"
        Part(f) == "\"" \o f \o "\": " \o (IF fields[f] = "none" THEN "null" ELSE "1")
        kept == SelectSeq(Fields, Keep)
    IN "{" \o Join([k \in DOMAIN kept |-> Part(kept[k])]) \o "}"

Returned(text, dispatches) ==
    [raised |-> FALSE, type |-> "str", text |-> text, dispatch_calls |-> dispatches]

\* a plausible slip: the generic handler listed first, so that it also takes
\* the ApiException
except_clauses_generic_first(e, dispatches) ==
    Returned("Error: " \o e.str, dispatches)

\* except ApiException as e: ... / except Exception as e: ...
except_clauses(e, dispatches) ==
    IF e.class = "ApiException"
    THEN Returned("API Error: " \o e.error, dispatches)
    ELSE Returned("Error: " \o e.str, dispatches)

\* the body of _execute_api_call for the given behaviour of its callees
execute_api_call(in) ==
    IF in.request.status = "raises"
    THEN except_clauses(in.request.value, 0)
    ELSE IF in.dispatch.status = "raises"
    THEN except_clauses(in.dispatch.value, 1)
    ELSE LET result == in.dispatch.value
         IN IF result.kind = "None"
            THEN Returned("No content", 1)
            ELSE IF in.dump.status = "raises"
            THEN except_clauses(in.dump.value, 1)
            ELSE IF result.kind = "dict"
            THEN Returned(json_dumps(result.fields), 1)
            ELSE Returned(model_dump_json(result.fields), 1)

ToolInit ==
    /\ t_domain \in ToolDomains
    /\ t_log = <<>>
    /\ t_invocations = 0

\* one tool invocation by the tool-calling loop (forward -> _execute_api_call)
forward ==
    /\ t_domain \in ToolDomains
    /\ t_invocations < MaxInvocations
    /\ \E in \in ToolInputs :
          t_log' = <<[inputs |-> in, outcome |-> execute_api_call(in)]>>
    /\ t_invocations' = t_invocations + 1
    /\ UNCHANGED t_domain
    /\ UNCHANGED not_tool

ToolNext == forward

InitTool ==
    DriverIdle /\ UsageIdle /\ ToolInit /\ SandboxIdle /\ SgrIdle /\ RuntimeIdle

SpecTool == InitTool /\ [][ToolNext]_vars

(***************************************************************************)
(* Claims about the tool adapters                                          *)
(***************************************************************************)
\* the first exception raised by request construction or dispatch, if any
FirstRaise(in) ==
    IF in.request.status = "raises" THEN <<in.request.value>>
    ELSE IF in.dispatch.status = "raises" THEN <<in.dispatch.value>>
    ELSE <<>>

\* C6: an invocation never raises and always returns a string; an
\* ApiException from request construction or dispatch gives
\* "API Error: <message>", any other exception "Error: <message>"; when
\* request construction fails, dispatch is not called.
C6_Theorem ==
    \A k \in DOMAIN t_log :
       LET in == t_log[k].inputs
           out == t_log[k].outcome
       IN /\ out.raised = FALSE
          /\ out.type = "str"
          /\ \A j \in DOMAIN FirstRaise(in) :
                LET e == FirstRaise(in)[j]
                IN IF e.class = "ApiException"
                   THEN out.text = "API Error: " \o e.error
                   ELSE out.text = "Error: " \o e.str
          /\ in.request.status = "raises" => out.dispatch_calls = 0

C6_Witness ==
    \E k \in DOMAIN t_log :
       /\ t_log[k].inputs.dispatch.status = "raises"
       /\ t_log[k].inputs.dispatch.value.class = "ApiException"
       /\ t_log[k].outcome.text = "API Error: m2"
       /\ t_invocations = MaxInvocations

\* the rendered text has a member named f
HasField(text, f) ==
    LET key == "\"" \o f \o "\""
    IN \E p \in 1..(Len(text) - Len(key) + 1) : SubSeq(text, p, p + Len(key) - 1) = key

\* the invocations in which dispatch returned and serialization did not raise
Rendered(k) ==
    /\ t_log[k].inputs.request.status = "returns"
    /\ t_log[k].inputs.dispatch.status = "returns"
    /\ t_log[k].inputs.dump.status # "raises"

\* C23 as stated: "No content" exactly when dispatch returned None; for a
\* response object the text has every field the response populated and no
\* field that is None (absent) or unset.
C23_Original ==
    \A k \in DOMAIN t_log :
       Rendered(k) =>
          LET result == t_log[k].inputs.dispatch.value
              text == t_log[k].outcome.text
          IN /\ (text = "No content") <=> (result.kind = "None")
             /\ result.kind # "None" =>
                   \A f \in {"a", "b"} : HasField(text, f) <=> result.fields[f] = "set"

\* C23 amended: "No content" exactly when dispatch returned None; a pydantic
\* response is rendered with exactly the fields that are set to a value
\* (None and unset fields left out); a plain dict is rendered with exactly
\* the keys it holds, a None value included.
C23_Theorem ==
    \A k \in DOMAIN t_log :
       Rendered(k) =>
          LET result == t_log[k].inputs.dispatch.value
              text == t_log[k].outcome.text
          IN /\ (text = "No content") <=> (result.kind = "None")
             /\ result.kind = "model" =>
                   \A f \in {"a", "b"} : HasField(text, f) <=> result.fields[f] = "set"
             /\ result.kind = "dict" =>
                   \A f \in {"a", "b"} : HasField(text, f) <=> result.fields[f] # "unset"

C23_Witness ==
    \E k \in DOMAIN t_log :
       /\ Rendered(k)
       /\ t_log[k].inputs.dispatch.value.kind = "model"
       /\ t_log[k].inputs.dispatch.value.fields["a"] = "set"
       /\ t_log[k].inputs.dispatch.value.fields["b"] = "none"
       /\ t_log[k].outcome.text = "{\"a\":1}"

(***************************************************************************)
(* GENERATED-CODE SANDBOX                                                  *)
(* coder_agent.py (both modes) and coder_agent_copy.py (out-of-process     *)
(* mode only).  A code string is a TLA+ string; the regular expressions of *)
(* _BANNED_PATTERNS are matched character by character.                    *)
(***************************************************************************)
MaxAtoms == 3
MaxWrites == 1

\* coder_agent.py:50  "if len(code) > 20000"
MaxCodeLen == 20000

SandboxModules == {"coder_agent", "coder_agent_copy"}

\* \w of the re module (ASCII part)
WordChars ==
    {"a", "b", "c", "d", "e", "f", "g", "h", "i", "j", "k", "l", "m", "n", "o",
     "p", "q", "r", "s", "t", "u", "v", "w", "x", "y", "z",
     "A", "B", "C", "D", "E", "F", "G", "H", "I", "J", "K", "L", "M", "N", "O",
     "P", "Q", "R", "S", "T", "U", "V", "W", "X", "Y", "Z",
     "0", "1", "2", "3", "4", "5", "6", "7", "8", "9", "_"}
\* \s of the re module (ASCII part)
SpaceChars == {" ", "\t", "\n", "\r", "\f"}

CharAt(code, p) == SubSeq(code, p, p)
IsWordAt(code, p) == p >= 1 /\ p <= Len(code) /\ CharAt(code, p) \in WordChars
\* \b between the characters p - 1 and p
WordBoundary(code, p) == IsWordAt(code, p - 1) # IsWordAt(code, p)
\* \s*\( starting at p
SpacesThenParen(code, p) ==
    \E q \in p..Len(code) :
        /\ CharAt(code, q) = "("
        /\ \A r \in p..(q - 1) : CharAt(code, r) \in SpaceChars

Word(lit) == [lit |-> lit, call |-> FALSE]     \* \blit\b
CallOf(lit) == [lit |-> lit, call |-> TRUE]      \* \blit\s*\(

\* a plausible slip: the file-open pattern left out of the list
BANNED_PATTERNS_without_open ==
    << [src |-> "\\bsubprocess\\b", alts |-> {Word("subprocess")}],
       [src |-> "\\bos\\.system\\b", alts |-> {Word("os.system")}],
       [src |-> "\\b__import__\\b", alts |-> {Word("__import__")}],
       [src |-> "\\beval\\s*\\(|\\bexec\\s*\\(|\\bcompile\\s*\\(",
        alts |-> {CallOf("eval"), CallOf("exec"), CallOf("compile")}],
       [src |-> "\\bsocket\\b", alts |-> {Word("socket")}],
       [src |-> "\\brequests\\b", alts |-> {Word("requests")}],
       [src |-> "\\bftp\\b", alts |-> {Word("ftp")}] >>

\* _BANNED_PATTERNS
BANNED_PATTERNS ==
    << [src |-> "\\bsubprocess\\b", alts |-> {Word("subprocess")}],
       [src |-> "\\bos\\.system\\b", alts |-> {Word("os.system")}],
       [src |-> "\\b__import__\\b", alts |-> {Word("__import__")}],
       [src |-> "\\beval\\s*\\(|\\bexec\\s*\\(|\\bcompile\\s*\\(",
        alts |-> {CallOf("eval"), CallOf("exec"), CallOf("compile")}],
       [src |-> "\\bsocket\\b", alts |-> {Word("socket")}],
       [src |-> "\\brequests\\b", alts |-> {Word("requests")}],
       [src |-> "\\bftp\\b", alts |-> {Word("ftp")}],
       [src |-> "\\bopen\\s*\\(", alts |-> {CallOf("open")}] >>

\* one alternative of a pattern matches at position p
MatchesAt(alt, code, p) ==
    LET end == p + Len(alt.lit)
    IN /\ SubSeq(code, p, end - 1) = alt.lit
       /\ WordBoundary(code, p)
       /\ IF alt.call THEN SpacesThenParen(code, end) ELSE WordBoundary(code, end)

\* re.search(pat, code)
re_search(pat, code) ==
    \E alt \in pat.alts :
        \E p \in 1..(Len(code) - Len(alt.lit) + 1) : MatchesAt(alt, code, p)

\* a plausible slip: ">=" for ">" in the size test
TooLarge_at_limit(code) == Len(code) >= MaxCodeLen

\* len(code) > 20000
TooLarge(code) == Len(code) > MaxCodeLen

\* validate_code: (ok, message)
validate_code(code) ==
    LET hits == {k \in DOMAIN BANNED_PATTERNS : re_search(BANNED_PATTERNS[k], code)}
    IN IF hits # {}
       THEN LET first == CHOOSE k \in hits : \A j \in hits : k <= j
            IN [ok |-> FALSE,
                msg |-> "Disallowed pattern found: " \o BANNED_PATTERNS[first].src]
       ELSE IF TooLarge(code)
       THEN [ok |-> FALSE, msg |-> "Generated code is too large"]
       ELSE [ok |-> TRUE, msg |-> "None"]

\* ---- the code strings the model is run on ----
BannedAtoms == {"subprocess", "os.system", "__import__", "eval", "exec",
                "compile", "socket", "requests", "ftp", "open"}
OtherAtoms == {"x", " ", "(", "."}
Atoms == BannedAtoms \cup OtherAtoms

RECURSIVE Repeat(_, _)
Repeat(c, n) ==
    IF n = 0 THEN ""
    ELSE IF n % 2 = 0 THEN LET h == Repeat(c, n \div 2) IN h \o h
    ELSE c \o Repeat(c, n - 1)

RECURSIVE Flatten(_)
Flatten(atoms) == IF atoms = <<>> THEN "" ELSE atoms[1] \o Flatten(Tail(atoms))

\* short strings: up to MaxAtoms atoms, at most one of them a denylisted name
ShortCodes ==
    {a \in UNION {[1..n -> Atoms] : n \in 0..MaxAtoms} :
        Cardinality({k \in DOMAIN a : a[k] \in BannedAtoms}) <= 1}
\* long strings: a short head, then a comment that fills the string up to one
\* below, exactly at, and one above the size limit
LongCodes ==
    {<<head, Repeat("#", n - Len(head))>> :
        head \in {"x", "ftp", "(", " "},
        n \in {MaxCodeLen - 1, MaxCodeLen, MaxCodeLen + 1}}

\* the interpreter process before it is spawned
NoChild == [kind |-> "none", returncode |-> 0, error |-> ""]

\* the values a snippet assigns to its variable `result`
ResultValues == {"v1", "v2"}
\* the names a snippet looks up: a whitelisted builtin, a builtin that is
\* not whitelisted, and the import machinery that an import statement calls
LookupNames == {"len", "int", "__import__"}
NoRef == [name |-> "none", guarded |-> FALSE]

\* the state at the entry of a run function
SandboxEntry ==
    /\ s_code = Flatten(s_atoms)
    /\ s_pc = "ready"
    /\ s_valid = <<>>
    /\ s_result = <<>>
    /\ s_files = 0
    /\ s_procs = 0
    /\ s_workers = 0
    /\ s_raised = FALSE
    /\ s_worker = "none"
    /\ s_stdout = 0
    /\ s_stderr = 0
    /\ s_timeout = FALSE
    /\ s_child = NoChild
    /\ s_namespace = "unset"
    /\ s_exec_result = "None"
    /\ s_exec_error = "None"
    /\ s_ref = NoRef
    /\ s_sys_stdout = "original"
    /\ s_sys_stderr = "original"
    /\ s_caller = "none"

SandboxInit ==
    /\ s_module \in SandboxModules
    /\ s_atoms \in ShortCodes \cup LongCodes
    /\ SandboxEntry

GeneratedPath == "generated_code_/generated.py"

\* what execute_code_file (subprocess.run with a timeout) can do
ExecOutcomes ==
    [kind : {"completed"}, returncode : {0, 1}, error : {""}]
    \cup [kind : {"raises"}, returncode : {0},
          error : {"TimeoutExpired", "OSError"}]

\* a plausible slip: ok taken from the exit code of the child
completed_result_by_returncode(completed) ==
    IF completed.returncode = 0
    THEN [ok |-> TRUE, stdout |-> "stdout", stderr |-> "stderr",
          returncode |-> completed.returncode, path |-> GeneratedPath]
    ELSE [ok |-> FALSE, error |-> "stderr", path |-> GeneratedPath]

\* the dict returned after execute_code_file returned a CompletedProcess
completed_result(completed) ==
    [ok |-> TRUE, stdout |-> "stdout", stderr |-> "stderr",
     returncode |-> completed.returncode, path |-> GeneratedPath]

\* run_generated_code: validate, write, execute, build the result dict
run_generated_code ==
    /\ s_pc = "ready"
    /\ LET v == validate_code(s_code)
       IN /\ s_valid' = <<v>>
          /\ IF ~v.ok
             THEN /\ s_result' = [ok |-> FALSE, error |-> v.msg]
                  /\ UNCHANGED <<s_files, s_procs, s_raised, s_child>>
             ELSE \E write \in {"written", "OSError"} :
                    IF write = "OSError"
                    THEN \* write_code_to_file is outside the try block
                         /\ s_raised' = TRUE
                         /\ UNCHANGED <<s_result, s_files, s_procs, s_child>>
                    ELSE /\ s_files' = s_files + 1
                         /\ UNCHANGED s_raised
                         /\ \E completed \in ExecOutcomes :
                              /\ s_child' = completed
                              /\ IF completed.kind = "completed"
                                 THEN /\ s_procs' = s_procs + 1
                                      /\ s_result' = completed_result(completed)
                                 ELSE /\ s_procs' =
                                           IF completed.error = "TimeoutExpired"
                                           THEN s_procs + 1 ELSE s_procs
                                      /\ s_result' =
                                           [ok |-> FALSE, error |-> completed.error,
                                            path |-> GeneratedPath]
    /\ s_pc' = "returned"
    /\ UNCHANGED <<s_module, s_atoms, s_code, s_workers, s_worker, s_stdout,
                   s_stderr, s_timeout>>
    /\ UNCHANGED <<s_namespace, s_exec_result, s_exec_error, s_ref, s_sys_stdout,
                   s_sys_stderr, s_caller>>
    /\ UNCHANGED not_sandbox

\* a plausible slip: the import machinery and int left in the builtins
make_safe_builtins_with_more ==
    {"True", "False", "None", "len", "range", "enumerate", "min", "max", "sum",
     "abs", "round", "print", "sorted", "list", "dict", "set", "tuple",
     "int", "__import__"}

\* _make_safe_builtins: the names of the dict given to the snippet as
\* __builtins__
make_safe_builtins ==
    {"True", "False", "None", "len", "range", "enumerate", "min", "max", "sum",
     "abs", "round", "print", "sorted", "list", "dict", "set", "tuple"}

\* run_generated_code_inproc up to thread.start(): validate, build the
\* namespace and the two buffers, start the daemon worker.  The worker is
\* followed from the point where it has entered its with-block: sys.stdout
\* and sys.stderr of the process are the two buffers.
run_generated_code_inproc ==
    /\ s_pc = "ready"
    /\ s_module = "coder_agent"
    /\ LET v == validate_code(s_code)
       IN /\ s_valid' = <<v>>
          /\ IF ~v.ok
             THEN /\ s_result' = [ok |-> FALSE, error |-> v.msg]
                  /\ s_pc' = "returned"
                  /\ UNCHANGED <<s_workers, s_worker, s_sys_stdout, s_sys_stderr>>
             ELSE /\ s_workers' = s_workers + 1
                  /\ s_worker' = "running"
                  /\ s_sys_stdout' = "stdout_buf"
                  /\ s_sys_stderr' = "stderr_buf"
                  /\ s_pc' = "join"
                  /\ UNCHANGED s_result
    /\ UNCHANGED <<s_module, s_atoms, s_code, s_files, s_procs, s_raised,
                   s_stdout, s_stderr, s_timeout>>
    /\ UNCHANGED <<s_child, s_namespace, s_exec_result, s_exec_error, s_ref, s_caller>>
    /\ UNCHANGED not_sandbox

\* _worker: the snippet, under redirect_stdout / redirect_stderr, writes
worker_write ==
    /\ s_worker = "running"
    /\ s_stdout + s_stderr < MaxWrites
    /\ \/ s_stdout' = s_stdout + 1 /\ UNCHANGED s_stderr
       \/ s_stderr' = s_stderr + 1 /\ UNCHANGED s_stdout
    /\ UNCHANGED <<s_module, s_atoms, s_code, s_pc, s_valid, s_result, s_files,
                   s_procs, s_workers, s_raised, s_worker, s_timeout>>
    /\ UNCHANGED <<s_child, s_namespace, s_exec_result, s_exec_error, s_ref,
                   s_sys_stdout, s_sys_stderr, s_caller>>
    /\ UNCHANGED not_sandbox

\* _worker: the snippet assigns its top-level variable `result`
worker_assign ==
    /\ s_worker = "running"
    /\ \E v \in ResultValues :
          /\ s_namespace # v
          /\ s_namespace' = v
    /\ UNCHANGED <<s_module, s_atoms, s_code, s_pc, s_valid, s_result, s_files,
                   s_procs, s_workers, s_raised, s_worker, s_stdout, s_stderr,
                   s_timeout>>
    /\ UNCHANGED <<s_child, s_exec_result, s_exec_error, s_ref, s_sys_stdout,
                   s_sys_stderr, s_caller>>
    /\ UNCHANGED not_sandbox

\* str() of the exception that the lookup of a missing builtin raises: a
\* NameError, and for the import statement an ImportError
LookupError(name) ==
    IF name = "__import__" THEN "__import__ not found"
    ELSE "name '" \o name \o "' is not defined"

\* _worker: the snippet evaluates a name that is not one of its own (or runs
\* an import statement); the name is looked up in namespace["__builtins__"].
\* A missing name raises inside the snippet: a bare except around the
\* statement (guarded) handles it, otherwise it ends exec and is caught by
\* "except Exception as e: exec_error = e", after the with-block has
\* restored sys.stdout and sys.stderr.
worker_lookup ==
    /\ s_worker = "running"
    /\ s_ref = NoRef
    /\ \E name \in LookupNames, guarded \in BOOLEAN :
          /\ s_ref' = [name |-> name, guarded |-> guarded]
          /\ IF name \in make_safe_builtins \/ guarded
             THEN UNCHANGED <<s_worker, s_exec_error, s_sys_stdout, s_sys_stderr>>
             ELSE /\ s_worker' = "raised"
                  /\ s_exec_error' = LookupError(name)
                  /\ s_sys_stdout' = "original"
                  /\ s_sys_stderr' = "original"
    /\ UNCHANGED <<s_module, s_atoms, s_code, s_pc, s_valid, s_result, s_files,
                   s_procs, s_workers, s_raised, s_stdout, s_stderr, s_timeout>>
    /\ UNCHANGED <<s_child, s_namespace, s_exec_result, s_caller>>
    /\ UNCHANGED not_sandbox

\* namespace.get("result")
namespace_get ==
    IF s_namespace = "unset" THEN "None" ELSE s_namespace

\* a plausible slip: the variable `result` not read back
worker_return_without_result ==
    /\ s_worker = "running"
    /\ s_worker' = "finished"
    /\ s_sys_stdout' = "original"
    /\ s_sys_stderr' = "original"
    /\ UNCHANGED <<s_module, s_atoms, s_code, s_pc, s_valid, s_result, s_files,
                   s_procs, s_workers, s_raised, s_stdout, s_stderr, s_timeout>>
    /\ UNCHANGED <<s_child, s_namespace, s_exec_result, s_exec_error, s_ref, s_caller>>
    /\ UNCHANGED not_sandbox

\* _worker: exec(code, namespace) returns, the with-block restores sys.stdout
\* and sys.stderr; exec_result = namespace.get("result")
worker_return ==
    /\ s_worker = "running"
    /\ s_worker' = "finished"
    /\ s_exec_result' = namespace_get
    /\ s_sys_stdout' = "original"
    /\ s_sys_stderr' = "original"
    /\ UNCHANGED <<s_module, s_atoms, s_code, s_pc, s_valid, s_result, s_files,
                   s_procs, s_workers, s_raised, s_stdout, s_stderr, s_timeout>>
    /\ UNCHANGED <<s_child, s_namespace, s_exec_error, s_ref, s_caller>>
    /\ UNCHANGED not_sandbox

\* _worker: the snippet raises, the with-block restores sys.stdout and
\* sys.stderr; except Exception as e: exec_error = e
worker_except ==
    /\ s_worker = "running"
    /\ s_worker' = "raised"
    /\ s_exec_error' = "division by zero"
    /\ s_sys_stdout' = "original"
    /\ s_sys_stderr' = "original"
    /\ UNCHANGED <<s_module, s_atoms, s_code, s_pc, s_valid, s_result, s_files,
                   s_procs, s_workers, s_raised, s_stdout, s_stderr, s_timeout>>
    /\ UNCHANGED <<s_child, s_namespace, s_exec_result, s_ref, s_caller>>
    /\ UNCHANGED not_sandbox

\* the timeout of thread.join(timeout=timeout) elapses
timeout_elapses ==
    /\ s_pc = "join"
    /\ ~s_timeout
    /\ s_timeout' = TRUE
    /\ UNCHANGED <<s_module, s_atoms, s_code, s_pc, s_valid, s_result, s_files,
                   s_procs, s_workers, s_raised, s_worker, s_stdout, s_stderr>>
    /\ UNCHANGED <<s_child, s_namespace, s_exec_result, s_exec_error, s_ref,
                   s_sys_stdout, s_sys_stderr, s_caller>>
    /\ UNCHANGED not_sandbox

\* the dict built after thread.join: by thread.is_alive() and exec_error
inproc_result ==
    IF s_worker = "running"
    THEN [ok |-> FALSE, error |-> "Execution timed out after 10s"]
    ELSE IF s_worker = "raised"
    THEN [ok |-> FALSE, error |-> s_exec_error, stdout |-> s_stdout,
          stderr |-> s_stderr]
    ELSE [ok |-> TRUE, stdout |-> s_stdout, stderr |-> s_stderr,
          result |-> s_exec_result]

\* a plausible slip: thread.join() without the timeout
join_without_timeout ==
    /\ s_pc = "join"
    /\ s_worker # "running"
    /\ s_result' = inproc_result
    /\ s_pc' = "returned"
    /\ UNCHANGED <<s_module, s_atoms, s_code, s_valid, s_files, s_procs,
                   s_workers, s_raised, s_worker, s_stdout, s_stderr, s_timeout>>
    /\ UNCHANGED <<s_child, s_namespace, s_exec_result, s_exec_error, s_ref,
                   s_sys_stdout, s_sys_stderr, s_caller>>
    /\ UNCHANGED not_sandbox

\* thread.join(timeout=timeout) returns, when the worker has ended or the
\* timeout has elapsed, and run_generated_code_inproc builds its result
join ==
    /\ s_pc = "join"
    /\ s_worker # "running" \/ s_timeout
    /\ s_result' = inproc_result
    /\ s_pc' = "returned"
    /\ UNCHANGED <<s_module, s_atoms, s_code, s_valid, s_files, s_procs,
                   s_workers, s_raised, s_worker, s_stdout, s_stderr, s_timeout>>
    /\ UNCHANGED <<s_child, s_namespace, s_exec_result, s_exec_error, s_ref,
                   s_sys_stdout, s_sys_stderr, s_caller>>
    /\ UNCHANGED not_sandbox

\* the caller of run_generated_code_inproc prints after the call returned:
\* the text goes to whatever sys.stdout is at that moment
caller_print ==
    /\ s_pc = "returned"
    /\ s_workers > 0
    /\ s_caller = "none"
    /\ s_caller' = s_sys_stdout
    /\ UNCHANGED <<s_module, s_atoms, s_code, s_pc, s_valid, s_result, s_files,
                   s_procs, s_workers, s_raised, s_worker, s_stdout, s_stderr,
                   s_timeout>>
    /\ UNCHANGED <<s_child, s_namespace, s_exec_result, s_exec_error, s_ref,
                   s_sys_stdout, s_sys_stderr>>
    /\ UNCHANGED not_sandbox

\* both run functions on every code string; the worker is followed as far as
\* its output and its end
SandboxNext ==
    \/ run_generated_code
    \/ run_generated_code_inproc
    \/ worker_write
    \/ worker_return
    \/ worker_except
    \/ timeout_elapses
    \/ join

InitSandbox ==
    DriverIdle /\ UsageIdle /\ ToolIdle /\ SandboxInit /\ SgrIdle /\ RuntimeIdle

SpecSandbox == InitSandbox /\ [][SandboxNext]_vars

\* the join timer runs down and the calling thread is scheduled; nothing makes
\* the executed snippet finish
FairSandbox == SpecSandbox /\ WF_vars(timeout_elapses) /\ WF_vars(join)

\* the code strings of at most one atom: run_generated_code_inproc on a
\* snippet whose statements are followed one by one
InprocCodes == {a \in ShortCodes : Len(a) <= 1}

InprocInit ==
    /\ s_module = "coder_agent"
    /\ s_atoms \in InprocCodes
    /\ SandboxEntry

InprocNext ==
    \/ run_generated_code_inproc
    \/ worker_write
    \/ worker_assign
    \/ worker_lookup
    \/ worker_return
    \/ worker_except
    \/ timeout_elapses
    \/ join
    \/ caller_print

InitInproc ==
    DriverIdle /\ UsageIdle /\ ToolIdle /\ InprocInit /\ SgrIdle /\ RuntimeIdle

SpecInproc == InitInproc /\ [][InprocNext]_vars

(***************************************************************************)
(* Claims about the sandbox validator                                      *)
(***************************************************************************)
\* the ten substrings the claim lists
ClaimSubstrings == {"subprocess", "os.system", "__import__", "eval(", "exec(",
                    "compile(", "socket", "requests", "ftp", "open("}
Contains(code, lit) ==
    \E p \in 1..(Len(code) - Len(lit) + 1) : SubSeq(code, p, p + Len(lit) - 1) = lit

NeverExecuted == s_files = 0 /\ s_procs = 0 /\ s_workers = 0
RejectedByValidation ==
    /\ NeverExecuted
    /\ s_pc = "returned" => ~s_raised /\ ~s_result.ok /\ ~s_valid[1].ok

\* a denylisted name as a whole word, read off the way the string was put
\* together: the name is an atom, its neighbours do not extend the word, and
\* for eval / exec / compile / open it is followed by spaces and "("
PlainNames == {"subprocess", "os.system", "__import__", "socket", "requests", "ftp"}
CallNames == {"eval", "exec", "compile", "open"}
EndsWord(a) == SubSeq(a, Len(a), Len(a)) \in WordChars
StartsWord(a) == SubSeq(a, 1, 1) \in WordChars
FreeBefore(k) == k = 1 \/ ~EndsWord(s_atoms[k - 1])
FreeAfter(k) == k = Len(s_atoms) \/ ~StartsWord(s_atoms[k + 1])
CalledAfter(k) ==
    \E q \in (k + 1)..Len(s_atoms) :
        s_atoms[q] = "(" /\ \A r \in (k + 1)..(q - 1) : s_atoms[r] = " "
WholeWordHit ==
    \E k \in DOMAIN s_atoms :
        /\ FreeBefore(k)
        /\ \/ s_atoms[k] \in PlainNames /\ FreeAfter(k)
           \/ s_atoms[k] \in CallNames /\ CalledAfter(k)

\* C7 as stated: a code string that contains one of the ten substrings is
\* rejected with a non-ok result and nothing is written, spawned or started.
C7_Original ==
    (\E lit \in ClaimSubstrings : Contains(s_code, lit)) =>
       /\ NeverExecuted
       /\ (s_pc = "returned" /\ ~s_raised) => ~s_result.ok

\* C7 amended: a code string in which a denylisted name occurs as a whole
\* word (eval, exec, compile, open: followed by optional whitespace and "(")
\* is rejected with a non-ok result and nothing is written, spawned or started.
C7_Theorem == WholeWordHit => RejectedByValidation

C7_Witness ==
    /\ s_pc = "returned" /\ WholeWordHit
    /\ s_atoms = <<"open", " ", "(">>
    /\ s_module = "coder_agent"

\* C8: a code string without a denylisted pattern passes validation exactly
\* when it has at most 20,000 characters; a longer one is returned as the
\* not-ok result "Generated code is too large", never raised.
C8_Theorem ==
    (s_valid # <<>> /\ ~WholeWordHit) =>
       /\ s_valid[1].ok <=> Len(s_code) <= 20000
       /\ ~s_valid[1].ok =>
            /\ ~s_raised
            /\ NeverExecuted
            /\ s_result = [ok |-> FALSE, error |-> "Generated code is too large"]

C8_Witness ==
    /\ s_pc = "returned" /\ Len(s_code) = 20000
    /\ s_valid[1].ok /\ ~s_raised /\ s_result.ok
    /\ s_module = "coder_agent_copy"

(***************************************************************************)
(* Claims about sandbox execution                                          *)
(***************************************************************************)
TimedOut == [ok |-> FALSE, error |-> "Execution timed out after 10s"]

\* C11 (safety part): while the worker is still running after the return, the
\* result is the not-ok timeout result.
C11_TimeoutResult ==
    (s_pc = "returned" /\ s_worker = "running") => s_result = TimedOut

\* C11 (the return step): a return with the worker alive happens only after
\* the timeout has elapsed and leaves the worker running.
C11_Abandoned ==
    (s_pc = "join" /\ s_pc' = "returned" /\ s_worker = "running") =>
       /\ s_timeout
       /\ s_worker' = "running"
       /\ s_result' = TimedOut

\* C11: run_generated_code_inproc returns once the join timeout has elapsed,
\* even if the snippet never finishes; the result is then not-ok with the
\* timeout text and the daemon worker is left running.
C11_Theorem ==
    /\ [](C11_TimeoutResult)
    /\ [][C11_Abandoned]_vars
    /\ (s_pc = "join") ~> (s_pc = "returned")

C11_Witness ==
    /\ s_pc = "returned" /\ s_worker = "running" /\ s_timeout
    /\ s_result = TimedOut /\ s_stdout = 1

\* C12 as stated: in in-process mode a timeout or an exception of the snippet
\* gives a not-ok result that carries the stdout and stderr captured so far.
C12_Claim ==
    (s_pc = "returned" /\ s_workers > 0) =>
       /\ s_worker \in {"running", "raised"} => ~s_result.ok
       /\ ~s_result.ok =>
             /\ {"stdout", "stderr"} \subseteq DOMAIN s_result
             /\ s_result.stdout <= s_stdout
             /\ s_result.stderr <= s_stderr

\* C13 as stated: after validation passed, run_generated_code does not raise;
\* a failure is returned as a not-ok result with the error text and the path,
\* and the temp file stays on disk.
C13_Claim ==
    (s_pc = "returned" /\ s_workers = 0 /\ s_valid[1].ok) =>
       /\ ~s_raised
       /\ ~s_result.ok =>
             /\ {"error", "path"} \subseteq DOMAIN s_result
             /\ s_files = 1

\* C25 (the return step): when run_generated_code_inproc returns after the
\* worker ended without raising, the result is ok and its result field is the
\* snippet's variable `result`, None when it assigned none; when the worker
\* ended by raising, the result is not ok and has no result field, whatever
\* the snippet had assigned.
C25_Step ==
    (s_pc = "join" /\ s_pc' = "returned") =>
       /\ s_worker = "finished" =>
             /\ s_result'.ok
             /\ "result" \in DOMAIN s_result'
             /\ s_result'.result = IF s_namespace = "unset" THEN "None" ELSE s_namespace
       /\ s_worker = "raised" =>
             /\ ~s_result'.ok
             /\ "result" \notin DOMAIN s_result'

\* C25: in in-process mode a snippet that ends within the timeout without
\* raising gives an ok result whose result field is the value of its
\* top-level variable result (None if unassigned); a snippet that raises
\* gives no result value even if result was assigned before.
C25_Theorem == [][C25_Step]_vars

C25_Witness ==
    /\ s_pc = "returned" /\ s_worker = "finished"
    /\ s_namespace = "v2"
    /\ s_result.ok /\ s_result.result = "v2"

\* the whitelist as the claim lists it
Whitelist ==
    {"True", "False", "None", "len", "range", "enumerate", "min", "max", "sum",
     "abs", "round", "print", "sorted", "list", "dict", "set", "tuple"}
\* the snippet looked up a name that is not whitelisted (an import statement
\* looks up __import__)
OutsideLookup == s_ref.name \notin Whitelist \cup {"none"}

\* C26 as stated: the builtins are exactly the whitelist, and a validated
\* snippet that references a builtin outside it or uses an import statement
\* ends in a not-ok result with the error captured, never in an ok result.
C26_Original ==
    /\ s_workers > 0 => make_safe_builtins = Whitelist
    /\ (s_pc = "returned" /\ s_workers > 0 /\ OutsideLookup) => ~s_result.ok

\* C26 amended: the builtins are exactly the whitelist; the lookup of any
\* other builtin name, or an import statement, raises inside the snippet.
\* If the snippet does not handle that exception itself, the result is not
\* ok: it carries the error text, or it is the timeout result when the call
\* had already timed out.  A snippet that handles the exception (a bare
\* except) can still end in an ok result.
C26_Theorem ==
    /\ s_workers > 0 => make_safe_builtins = Whitelist
    /\ (s_pc = "returned" /\ s_workers > 0 /\ OutsideLookup /\ ~s_ref.guarded) =>
          /\ ~s_result.ok
          /\ \/ s_result = TimedOut
             \/ /\ s_result.error = LookupError(s_ref.name)
                /\ {"stdout", "stderr"} \subseteq DOMAIN s_result

C26_Witness ==
    /\ s_pc = "returned"
    /\ s_ref = [name |-> "__import__", guarded |-> FALSE]
    /\ ~s_result.ok
    /\ s_result.error = "__import__ not found"

\* C27 as stated: whenever run_generated_code_inproc has returned, sys.stdout
\* and sys.stderr of the process are the streams installed before the call,
\* and text the caller prints after the return is not captured into the
\* snippet's buffers, even while an abandoned worker is still running.
C27_Claim ==
    (s_pc = "returned" /\ s_workers > 0) =>
       /\ s_sys_stdout = "original"
       /\ s_sys_stderr = "original"
       /\ s_caller \in {"none", "original"}

\* C30: in out-of-process mode the result is ok exactly when validation
\* passed and the child process ended within the timeout, whatever its exit
\* code; an ok result carries that returncode and the captured stderr and has
\* no error field.
C30_Theorem ==
    (s_pc = "returned" /\ s_workers = 0 /\ ~s_raised) =>
       /\ s_result.ok <=> (s_valid[1].ok /\ s_child.kind = "completed")
       /\ s_result.ok =>
             /\ s_result.returncode = s_child.returncode
             /\ "stderr" \in DOMAIN s_result
             /\ "error" \notin DOMAIN s_result

C30_Witness ==
    /\ s_pc = "returned" /\ s_module = "coder_agent_copy"
    /\ s_child = [kind |-> "completed", returncode |-> 1, error |-> ""]
    /\ s_result.ok /\ s_result.returncode = 1

(***************************************************************************)
(* STRUCTURED-STEP (SGR) LOOP                                              *)
(* run_agent of store_agent.py.  A turn of the transcript is modelled by   *)
(* its role and its tool-call id; of its text only whether a tool result   *)
(* is a response or an error detail.                                       *)
(***************************************************************************)
MaxApiErrors == 1

\* store_agent.py:58  "for i in range(20)"
MaxSteps == 20

\* NextStep.function: the completion report or one of the seven requests
StoreRequests == {"Req_ListProducts", "Req_ViewBasket", "Req_ApplyCoupon",
                  "Req_RemoveCoupon", "Req_AddProductToBasket",
                  "Req_RemoveItemFromBasket", "Req_CheckoutBasket"}
Functions == {"ReportTaskCompletion"} \cup StoreRequests
NextStep == [task_completed : BOOLEAN, function : Functions]
\* the steps the model is taken to answer with: the report, the checkout and
\* one other request, each with either value of task_completed
ParsedSteps ==
    [task_completed : BOOLEAN,
     function : {"ReportTaskCompletion", "Req_CheckoutBasket", "Req_ListProducts"}]
NoJob == [task_completed |-> FALSE, function |-> "none"]

\* a plausible slip: the step label taken from i, not i + 1
step_zero_based == "step_" \o ToString(g_i)

\* step = f"step_{i + 1}"
step == "step_" \o ToString(g_i + 1)

SystemTurn == [role |-> "system", id |-> "", content |-> "system_prompt"]
UserTurn == [role |-> "user", id |-> "", content |-> "task_text"]
AssistantTurn(id) == [role |-> "assistant", id |-> id, content |-> "plan"]
ToolTurn(id, txt) == [role |-> "tool", id |-> id, content |-> txt]

SgrInit ==
    /\ g_pc = "run_agent"
    /\ g_i = 0
    /\ log = <<>>
    /\ job = NoJob
    /\ g_messages = <<>>
    /\ g_model_calls = 0
    /\ g_log_llm = 0
    /\ g_dispatched = 0
    /\ g_checkouts = 0
    /\ g_errors = 0
    /\ g_reports = 0
    /\ g_exit = "none"
    /\ g_console = "none"

\* store_api = api.get_store_client(task); log = [system, user]
run_agent ==
    /\ g_pc = "run_agent"
    /\ log' = <<SystemTurn, UserTurn>>
    /\ g_pc' = "for"
    /\ UNCHANGED <<g_i, job, g_messages, g_model_calls, g_log_llm, g_dispatched, g_checkouts,
                   g_errors, g_reports, g_exit, g_console>>
    /\ UNCHANGED not_sgr

\* a plausible slip: one step too many (range(21))
for_range_one_more ==
    /\ g_pc = "for"
    /\ IF g_i <= MaxSteps
       THEN g_pc' = "parse" /\ g_console' = "Next step" /\ UNCHANGED g_exit
       ELSE g_pc' = "done" /\ g_exit' = "exhausted" /\ UNCHANGED g_console
    /\ UNCHANGED <<g_i, log, job, g_messages, g_model_calls, g_log_llm,
                   g_dispatched, g_checkouts, g_errors, g_reports>>
    /\ UNCHANGED not_sgr

\* for i in range(20): the next step, or the end of the budget, after which
\* run_agent returns without another statement
for_range ==
    /\ g_pc = "for"
    /\ IF g_i < MaxSteps
       THEN g_pc' = "parse" /\ g_console' = "Next step" /\ UNCHANGED g_exit
       ELSE g_pc' = "done" /\ g_exit' = "exhausted" /\ UNCHANGED g_console
    /\ UNCHANGED <<g_i, log, job, g_messages, g_model_calls, g_log_llm,
                   g_dispatched, g_checkouts, g_errors, g_reports>>
    /\ UNCHANGED not_sgr

\* completion = client.beta.chat.completions.parse(messages=log, ...)
parse ==
    /\ g_pc = "parse"
    /\ g_messages' = log
    /\ g_model_calls' = g_model_calls + 1
    /\ \E parsed \in ParsedSteps :
          /\ job' = parsed
          /\ g_reports' = IF parsed.function = "ReportTaskCompletion"
                          THEN g_reports + 1 ELSE g_reports
    /\ g_pc' = "log_llm"
    /\ UNCHANGED <<g_i, log, g_log_llm, g_dispatched, g_checkouts, g_errors, g_exit, g_console>>
    /\ UNCHANGED not_sgr

\* a plausible slip: log_llm placed after the completion-report break
log_llm_after_break ==
    /\ g_pc = "log_llm"
    /\ g_log_llm' = IF job.function = "ReportTaskCompletion"
                    THEN g_log_llm ELSE g_log_llm + 1
    /\ g_pc' = "isinstance"
    /\ UNCHANGED <<g_i, log, job, g_messages, g_model_calls, g_dispatched, g_checkouts,
                   g_errors, g_reports, g_exit, g_console>>
    /\ UNCHANGED not_sgr

\* api.log_llm(task_id=..., model=..., duration_sec=..., usage=completion.usage)
log_llm ==
    /\ g_pc = "log_llm"
    /\ g_log_llm' = g_log_llm + 1
    /\ g_pc' = "isinstance"
    /\ UNCHANGED <<g_i, log, job, g_messages, g_model_calls, g_dispatched, g_checkouts,
                   g_errors, g_reports, g_exit, g_console>>
    /\ UNCHANGED not_sgr

\* a plausible slip: the loop left on the task_completed flag
report_or_append_on_flag ==
    /\ g_pc = "isinstance"
    /\ IF job.task_completed
       THEN /\ g_console' = "Summary"
            /\ g_exit' = "report"
            /\ g_pc' = "done"
            /\ UNCHANGED log
       ELSE /\ g_console' = "plan"
            /\ log' = Append(log, AssistantTurn(step))
            /\ g_pc' = "dispatch"
            /\ UNCHANGED g_exit
    /\ UNCHANGED <<g_i, job, g_messages, g_model_calls, g_log_llm, g_dispatched, g_checkouts,
                   g_errors, g_reports>>
    /\ UNCHANGED not_sgr

\* if isinstance(job.function, ReportTaskCompletion): print summary; break
\* else: print the plan and append the assistant tool-call turn
report_or_append ==
    /\ g_pc = "isinstance"
    /\ IF job.function = "ReportTaskCompletion"
       THEN /\ g_console' = "Summary"
            /\ g_exit' = "report"
            /\ g_pc' = "done"
            /\ UNCHANGED log
       ELSE /\ g_console' = "plan"
            /\ log' = Append(log, AssistantTurn(step))
            /\ g_pc' = "dispatch"
            /\ UNCHANGED g_exit
    /\ UNCHANGED <<g_i, job, g_messages, g_model_calls, g_log_llm, g_dispatched, g_checkouts,
                   g_errors, g_reports>>
    /\ UNCHANGED not_sgr

\* a plausible slip: a backend error ends the loop
dispatch_ending_on_error ==
    /\ g_pc = "dispatch"
    /\ g_dispatched' = g_dispatched + 1
    /\ g_checkouts' = IF job.function = "Req_CheckoutBasket"
                      THEN g_checkouts + 1 ELSE g_checkouts
    /\ \/ /\ log' = Append(log, ToolTurn(step, "result"))
          /\ g_console' = "OUT"
          /\ g_i' = g_i + 1
          /\ g_pc' = "for"
          /\ UNCHANGED <<g_errors, g_exit>>
       \/ /\ g_errors < MaxApiErrors
          /\ g_errors' = g_errors + 1
          /\ log' = Append(log, ToolTurn(step, "detail"))
          /\ g_console' = "ERR"
          /\ g_pc' = "done"
          /\ g_exit' = "error"
          /\ UNCHANGED g_i
    /\ UNCHANGED <<job, g_messages, g_model_calls, g_log_llm, g_reports>>
    /\ UNCHANGED not_sgr

\* a plausible slip: a request that failed is dispatched a second time
dispatch_retrying_on_error ==
    /\ g_pc = "dispatch"
    /\ \/ /\ log' = Append(log, ToolTurn(step, "result"))
          /\ g_console' = "OUT"
          /\ g_dispatched' = g_dispatched + 1
          /\ g_checkouts' = IF job.function = "Req_CheckoutBasket"
                            THEN g_checkouts + 1 ELSE g_checkouts
          /\ UNCHANGED g_errors
       \/ /\ g_errors < MaxApiErrors
          /\ g_errors' = g_errors + 1
          /\ log' = Append(log, ToolTurn(step, "detail"))
          /\ g_console' = "ERR"
          /\ g_dispatched' = g_dispatched + 2
          /\ g_checkouts' = IF job.function = "Req_CheckoutBasket"
                            THEN g_checkouts + 2 ELSE g_checkouts
    /\ g_i' = g_i + 1
    /\ g_pc' = "for"
    /\ UNCHANGED <<job, g_messages, g_model_calls, g_log_llm, g_reports, g_exit>>
    /\ UNCHANGED not_sgr

\* a plausible slip: the tool-result turn appended only when dispatch succeeds
dispatch_dropping_error ==
    /\ g_pc = "dispatch"
    /\ g_dispatched' = g_dispatched + 1
    /\ g_checkouts' = IF job.function = "Req_CheckoutBasket"
                      THEN g_checkouts + 1 ELSE g_checkouts
    /\ \/ /\ log' = Append(log, ToolTurn(step, "result"))
          /\ g_console' = "OUT"
          /\ UNCHANGED g_errors
       \/ /\ g_errors < MaxApiErrors
          /\ g_errors' = g_errors + 1
          /\ g_console' = "ERR"
          /\ UNCHANGED log
    /\ g_i' = g_i + 1
    /\ g_pc' = "for"
    /\ UNCHANGED <<job, g_messages, g_model_calls, g_log_llm, g_reports, g_exit>>
    /\ UNCHANGED not_sgr

\* try: result = store_api.dispatch(job.function); txt = result json
\* except ApiException as e: txt = e.detail
\* log.append(tool turn)
dispatch ==
    /\ g_pc = "dispatch"
    /\ g_dispatched' = g_dispatched + 1
    /\ g_checkouts' = IF job.function = "Req_CheckoutBasket"
                      THEN g_checkouts + 1 ELSE g_checkouts
    /\ \/ /\ log' = Append(log, ToolTurn(step, "result"))
          /\ g_console' = "OUT"
          /\ UNCHANGED g_errors
       \/ /\ g_errors < MaxApiErrors
          /\ g_errors' = g_errors + 1
          /\ log' = Append(log, ToolTurn(step, "detail"))
          /\ g_console' = "ERR"
    /\ g_i' = g_i + 1
    /\ g_pc' = "for"
    /\ UNCHANGED <<job, g_messages, g_model_calls, g_log_llm, g_reports, g_exit>>
    /\ UNCHANGED not_sgr

SgrNext ==
    \/ run_agent
    \/ for_range
    \/ parse
    \/ log_llm
    \/ report_or_append
    \/ dispatch

InitSgr ==
    DriverIdle /\ UsageIdle /\ ToolIdle /\ SandboxIdle /\ SgrInit /\ RuntimeIdle

SpecSGR == InitSgr /\ [][SgrNext]_vars

\* run_agent is one synchronous thread; the model call and dispatch return
FairSGR == SpecSGR /\ WF_vars(SgrNext)

(***************************************************************************)
(* Claims about the SGR loop                                               *)
(***************************************************************************)
\* C9 (safety part): never more than 20 model calls; a completion report is
\* the last model call; the loop is left by the report, or after the 20th
\* call without any report and then with nothing printed after the last
\* tool result.
C9_Bounded ==
    /\ g_model_calls <= 20
    /\ g_reports <= 1
    /\ g_reports = 1 =>
          /\ job.function = "ReportTaskCompletion"
          /\ g_pc \in {"log_llm", "isinstance", "done"}
    /\ g_pc = "done" =>
          \/ /\ g_exit = "report"
             /\ g_reports = 1
             /\ g_console = "Summary"
          \/ /\ g_exit = "exhausted"
             /\ g_reports = 0
             /\ g_model_calls = 20
             /\ g_console \in {"OUT", "ERR"}

\* C9: run_agent always terminates, after at most 20 model calls, at the
\* first completion report or silently after the 20th step.
C9_Theorem == [](C9_Bounded) /\ <>(g_pc = "done")

C9_Witness ==
    /\ g_pc = "done" /\ g_exit = "exhausted" /\ g_model_calls = 20
    /\ g_errors = MaxApiErrors

\* C10: the transcript starts with the system and user turns; it has two more
\* turns per dispatched request and none for the completion step; every model
\* call gets the whole transcript; a run that reports after k requests ends
\* with 2 + 2k turns through the report branch.
C10_Theorem ==
    /\ g_pc # "run_agent" =>
          /\ Len(log) >= 2
          /\ log[1].role = "system" /\ log[2].role = "user"
          /\ Len(log) = 2 + 2 * g_dispatched + (IF g_pc = "dispatch" THEN 1 ELSE 0)
          /\ \A k \in 1..g_dispatched :
                log[2 * k + 1].role = "assistant" /\ log[2 * k + 2].role = "tool"
    /\ g_pc \in {"log_llm", "isinstance"} =>
          /\ g_messages = log
          /\ Len(g_messages) = 2 * g_model_calls
    /\ g_model_calls > 0 => g_messages = SubSeq(log, 1, 2 * g_model_calls)
    /\ g_reports = 1 => Len(log) = 2 * g_model_calls
    /\ g_pc = "done" /\ g_reports = 1 =>
          /\ g_exit = "report"
          /\ g_dispatched = g_model_calls - 1
          /\ Len(log) = 2 + 2 * g_dispatched

C10_Witness ==
    /\ g_pc = "done" /\ g_exit = "report"
    /\ g_dispatched = 2 /\ Len(log) = 6 /\ g_errors = 1

\* C15 as stated: during one task's run the checkout request is dispatched
\* exactly once.
C15_Original == g_pc = "done" => g_checkouts = 1

\* C15 amended: a step that selects the checkout request dispatches it exactly
\* once, and no other step dispatches one; how many checkout requests a run
\* makes is the sum of the agent's choices.
C15_Step ==
    g_checkouts' =
       IF g_pc = "dispatch" /\ g_pc' = "for" /\ job.function = "Req_CheckoutBasket"
       THEN g_checkouts + 1
       ELSE g_checkouts

C15_Theorem == [][C15_Step]_vars

C15_Witness ==
    /\ g_pc = "done" /\ g_exit = "report"
    /\ g_checkouts = 2 /\ g_errors = 1


\* C21: each model call is followed by exactly one log_llm call before the
\* step's request is dispatched or the loop is left, the call that returns
\* the completion report included; at every other point the two counts agree.
C21_Theorem ==
    /\ g_pc = "log_llm" => g_log_llm = g_model_calls - 1
    /\ g_pc # "log_llm" => g_log_llm = g_model_calls
    /\ g_pc \in {"dispatch", "done"} => g_log_llm = g_model_calls

C21_Witness ==
    /\ g_pc = "done" /\ g_exit = "report"
    /\ g_model_calls = 3 /\ g_log_llm = 3 /\ g_dispatched = 2

\* C22 (the dispatch step): when dispatch raises ApiException, the error
\* detail is appended as the tool turn with the step's id, nothing is raised
\* and the loop goes to its next iteration.
C22_Step ==
    (g_pc = "dispatch" /\ g_errors' = g_errors + 1) =>
       /\ log' = Append(log, [role |-> "tool", id |-> log[Len(log)].id,
                              content |-> "detail"])
       /\ log[Len(log)].role = "assistant"
       /\ g_pc' = "for"
       /\ g_i' = g_i + 1
       /\ g_exit' = "none"

\* C22: a backend API error of dispatch does not end run_agent: the detail
\* becomes that step's tool-result turn and the loop continues with the next
\* step on the grown transcript.
C22_Theorem == [][C22_Step]_vars

C22_Witness ==
    /\ g_pc = "log_llm" /\ g_errors = 1 /\ g_model_calls = 2
    /\ g_messages[Len(g_messages)] = ToolTurn("step_1", "detail")
    /\ Len(g_messages) = 4

\* C28 (the exit decision): a step whose function is the completion report
\* leaves the loop and a step whose function is a store request is recorded
\* and goes on to dispatch, whatever the value of task_completed.
C28_Step ==
    (g_pc = "isinstance" /\ g_pc' # "isinstance") =>
       IF job.function = "ReportTaskCompletion"
       THEN g_pc' = "done" /\ g_exit' = "report" /\ log' = log
       ELSE /\ g_pc' = "dispatch" /\ g_exit' = "none"
            /\ Len(log') = Len(log) + 1 /\ log'[Len(log')].role = "assistant"

\* C28: the exit decision depends on the type of the chosen function only,
\* never on the task_completed flag.
C28_Theorem == [][C28_Step]_vars

C28_Witness ==
    /\ g_pc = "parse" /\ g_dispatched = 1 /\ Len(log) = 4
    /\ job.task_completed /\ job.function = "Req_CheckoutBasket"

\* C29: the transcript passed to a model call is the system turn, the user
\* turn, and then pairs of an assistant tool-call turn with id step_k and the
\* tool-result turn with the same id, for k = 1, 2, ... in order.
C29_Theorem ==
    g_model_calls > 0 =>
       /\ Len(g_messages) = 2 * g_model_calls
       /\ g_messages[1].role = "system" /\ g_messages[2].role = "user"
       /\ \A k \in 1..(g_model_calls - 1) :
             /\ g_messages[2 * k + 1].role = "assistant"
             /\ g_messages[2 * k + 1].id = "step_" \o ToString(k)
             /\ g_messages[2 * k + 2].role = "tool"
             /\ g_messages[2 * k + 2].id = "step_" \o ToString(k)

C29_Witness ==
    /\ g_pc = "log_llm" /\ g_model_calls = 3 /\ Len(g_messages) = 6
    /\ g_messages[5].id = "step_2" /\ g_messages[6].id = "step_2"
    /\ g_messages[4].content = "detail"

(***************************************************************************)
(* AGENT RUNTIMES                                                          *)
(* run_agent of agent_dev.py and of the three hf_store_agent.py, called    *)
(* from the loop of the matching main.py.  One process: the driver loop,   *)
(* the one usage-tracking model instance, the root logger and the log      *)
(* files are shared by all the runs of a process.                          *)
(***************************************************************************)
MaxRuns == 3
MaxGenerate == 2
MaxFaults == 1

\* the runtimes whose run_agent loads the prompt file named by --yaml
YamlRuntimes == {"agent_dev", "hf_store_agent_system_prompt_redefined"}

\* the usage_tracking_model module a runtime imports
WrapperOf(driver) ==
    IF driver = "hf_store_agent"
    THEN "hf_store_agent"
    ELSE "hf_store_agent_system_prompt_tools_changed"

\* UsageTrackingModel.__init__: the counters at zero
ZeroUsage(variant) ==
    IF variant = "hf_store_agent"
    THEN [input_tokens |-> 0, output_tokens |-> 0]
    ELSE [prompt_tokens |-> 0, completion_tokens |-> 0, total_tokens |-> 0]

\* only the wrapper with the model_name_for_logging keyword sets the attribute
HasModelNameForLogging(variant) == variant # "hf_store_agent"

\* response.token_usage of the model calls an agent run makes
RunTokenUsages == {[input_tokens |-> 1, output_tokens |-> 2],
                   [input_tokens |-> 2, output_tokens |-> 0]}

\* the store tools appended to the list `tools`, and the final-answer tool
StoreTools == {"list_products", "view_basket", "apply_coupon", "remove_coupon",
               "add_product_to_basket", "remove_item_from_basket",
               "checkout_basket"}
ToolsOf(driver) ==
    IF driver = "agent_dev" THEN {"dev_tools", "final_answer"}
    ELSE StoreTools \cup {"final_answer"}

\* every logging.StreamHandler() is a new handler object, named here by the
\* task run that constructed it
StreamHandler(t) == [kind |-> "stream", name |-> t]
FileHandler(t) == [kind |-> "file", name |-> t]

\* a record handed to the root logger goes to every attached file handler
Written(handlers, t, marker) ==
    {[file |-> h.name, task |-> t, marker |-> marker] :
        h \in {x \in handlers : x.kind = "file"}}

\* the process after core.session_status returned its task list
RuntimeInit ==
    /\ d_driver \in Drivers
    /\ d_pc = "for"
    /\ \E n \in 0..MaxRuns : d_tasks = [k \in 1..n |-> k]
    /\ d_i = 0
    /\ d_calls = <<Call("start_session", NoTask), Call("session_status", NoTask)>>
    /\ d_raised = {}
    /\ d_printed = <<>>
    /\ r_pc = "idle"
    /\ r_usage = ZeroUsage(WrapperOf(d_driver))
    /\ r_generated = <<>>
    /\ r_log_llm = <<>>
    /\ r_logged = {}
    /\ r_handlers = {}
    /\ r_closed = {}
    /\ r_files = {}
    /\ r_lines = {}
    /\ r_agents = <<>>
    /\ r_faults = 0

\* main.py: try: run_agent(usage_tracking_model, core, task, ...)
call_run_agent ==
    /\ d_pc = "run_agent"
    /\ d_calls' = Append(d_calls, Call("run_agent", task))
    /\ d_pc' = "in run_agent"
    /\ r_pc' = IF d_driver \in YamlRuntimes THEN "load_system_prompt" ELSE "logging"
    /\ r_agents' = <<>>
    /\ UNCHANGED <<d_driver, d_tasks, d_i, d_raised, d_printed>>
    /\ UNCHANGED <<r_usage, r_generated, r_log_llm, r_logged, r_handlers, r_closed, r_files,
                   r_lines, r_faults>>
    /\ UNCHANGED not_runtime

\* system_prompt = load_system_prompt_from_yaml(yaml_filename): open and
\* yaml.safe_load raise for a missing or malformed file; nothing in run_agent
\* catches it
load_system_prompt_from_yaml ==
    /\ r_pc = "load_system_prompt"
    /\ \/ /\ r_pc' = "logging"
          /\ UNCHANGED r_faults
       \/ /\ r_faults < MaxFaults
          /\ r_faults' = r_faults + 1
          /\ r_pc' = "raised"
    /\ UNCHANGED <<r_usage, r_generated, r_log_llm, r_logged, r_handlers, r_closed, r_files,
                   r_lines, r_agents>>
    /\ UNCHANGED <<driver_vars, not_runtime>>

\* a plausible slip: the dev runtime's handler reset applied everywhere
basicConfig_always_forced(driver, handlers, t) ==
    IF driver \in YamlRuntimes
    THEN {FileHandler(t), StreamHandler(t)}
    ELSE {StreamHandler(t)}

\* a plausible slip: the new handlers added without removing the old ones
basicConfig_keeping_handlers(driver, handlers, t) ==
    IF driver = "agent_dev"
    THEN handlers \cup {FileHandler(t), StreamHandler(t)}
    ELSE IF handlers # {}
    THEN handlers
    ELSE IF driver = "hf_store_agent_system_prompt_redefined"
    THEN {FileHandler(t), StreamHandler(t)}
    ELSE {StreamHandler(t)}

\* for handler in logger.handlers[:]: handler.close();
\* logger.removeHandler(handler) -- the handlers closed and removed by the
\* logging setup (agent_dev.py only)
removeHandler(driver, handlers) ==
    IF driver = "agent_dev" THEN handlers ELSE {}

\* the root logger's handlers after the logging setup of run_agent:
\* agent_dev.py removes the old handlers and calls basicConfig(force=True);
\* the store runtimes call basicConfig without force, which does nothing
\* when the root logger already has handlers
basicConfig(driver, handlers, t) ==
    IF driver = "agent_dev"
    THEN {FileHandler(t), StreamHandler(t)}
    ELSE IF handlers # {}
    THEN handlers
    ELSE IF driver = "hf_store_agent_system_prompt_redefined"
    THEN {FileHandler(t), StreamHandler(t)}
    ELSE {StreamHandler(t)}

\* the logging setup and the [INIT] lines; logging.FileHandler(log_filename,
\* mode="w") creates the file when it is constructed
configure_logging ==
    /\ r_pc = "logging"
    /\ r_files' = IF d_driver \in YamlRuntimes THEN r_files \cup {task} ELSE r_files
    /\ r_handlers' = basicConfig(d_driver, r_handlers, task)
    /\ r_closed' = r_closed \cup removeHandler(d_driver, r_handlers)
    /\ r_logged' = r_logged \cup {[task |-> task, marker |-> "INIT"]}
    /\ r_lines' = r_lines \cup Written(r_handlers', task, "INIT")
    /\ r_pc' = "tools"
    /\ UNCHANGED <<r_usage, r_generated, r_log_llm, r_agents, r_faults>>
    /\ UNCHANGED <<driver_vars, not_runtime>>

\* the task client and the try block that builds the list `tools`; its
\* handler logs [ERROR] and re-raises
create_tools ==
    /\ r_pc = "tools"
    /\ \/ /\ r_pc' = "agents"
          /\ UNCHANGED <<r_faults, r_logged, r_lines>>
       \/ /\ r_faults < MaxFaults
          /\ r_faults' = r_faults + 1
          /\ r_logged' = r_logged \cup {[task |-> task, marker |-> "ERROR"]}
          /\ r_lines' = r_lines \cup Written(r_handlers, task, "ERROR")
          /\ r_pc' = "raised"
    /\ UNCHANGED <<r_usage, r_generated, r_log_llm, r_handlers, r_closed, r_files, r_agents>>
    /\ UNCHANGED <<driver_vars, not_runtime>>

\* a plausible slip: the manager given the raw tools and no sub-agent
Agents_without_specialist(driver) ==
    <<[name |-> "hf_coding_agent", tools |-> ToolsOf(driver),
       managed_agents |-> {}, run |-> TRUE]>>

\* the CodeAgent objects run_agent constructs; `run` marks the one whose
\* .run(task_prompt) is called
Agents(driver) ==
    IF driver = "hf_store_agent_with_tool_agent"
    THEN <<[name |-> "OnlineStoreAPICodeAgent", tools |-> ToolsOf(driver),
            managed_agents |-> {}, run |-> FALSE],
           [name |-> "MainAgentToDecideAndManageStoreAgent",
            tools |-> ToolsOf(driver),
            managed_agents |-> {"OnlineStoreAPICodeAgent"}, run |-> TRUE]>>
    ELSE <<[name |-> "hf_coding_agent", tools |-> ToolsOf(driver),
            managed_agents |-> {}, run |-> TRUE]>>

\* hf_coding_agent = CodeAgent(...), main_agent = CodeAgent(...)
construct_agents ==
    /\ r_pc = "agents"
    /\ r_agents' = Agents(d_driver)
    /\ r_pc' = "run"
    /\ UNCHANGED <<r_usage, r_generated, r_log_llm, r_logged, r_handlers, r_closed, r_files,
                   r_lines, r_faults>>
    /\ UNCHANGED <<driver_vars, not_runtime>>

\* a plausible slip: the counters reset at the start of every run
agent_generate_per_task ==
    /\ r_pc = "run"
    /\ Len(r_generated) < MaxGenerate
    /\ \E tu \in RunTokenUsages :
          LET usage == UsageOf(WrapperOf(d_driver), tu)
              since == IF \E p \in DOMAIN r_generated : r_generated[p].task = task
                       THEN r_usage ELSE ZeroUsage(WrapperOf(d_driver))
          IN /\ r_usage' = AddUsage(WrapperOf(d_driver), since, usage)
             /\ r_generated' = Append(r_generated, [task |-> task, usage |-> usage])
    /\ r_logged' = r_logged \cup {[task |-> task, marker |-> "LLM Call Usage"]}
    /\ r_lines' = r_lines \cup Written(r_handlers, task, "LLM Call Usage")
    /\ UNCHANGED <<r_pc, r_log_llm, r_handlers, r_closed, r_files, r_agents, r_faults>>
    /\ UNCHANGED <<driver_vars, not_runtime>>

\* inside agent.run: one metered call of the shared model instance
\* (UsageTrackingModel.generate, which also logs the call's usage)
agent_generate ==
    /\ r_pc = "run"
    /\ Len(r_generated) < MaxGenerate
    /\ \E tu \in RunTokenUsages :
          LET usage == UsageOf(WrapperOf(d_driver), tu)
          IN /\ r_usage' = AddUsage(WrapperOf(d_driver), r_usage, usage)
             /\ r_generated' = Append(r_generated, [task |-> task, usage |-> usage])
    /\ r_logged' = r_logged \cup {[task |-> task, marker |-> "LLM Call Usage"]}
    /\ r_lines' = r_lines \cup Written(r_handlers, task, "LLM Call Usage")
    /\ UNCHANGED <<r_pc, r_log_llm, r_handlers, r_closed, r_files, r_agents, r_faults>>
    /\ UNCHANGED <<driver_vars, not_runtime>>

\* result = agent.run(task_prompt) returns, [SUCCESS] is logged; or it raises
agent_run ==
    /\ r_pc = "run"
    /\ \/ /\ r_logged' = r_logged \cup {[task |-> task, marker |-> "SUCCESS"]}
          /\ r_lines' = r_lines \cup Written(r_handlers, task, "SUCCESS")
          /\ r_pc' = "log_llm"
          /\ UNCHANGED r_faults
       \/ /\ r_faults < MaxFaults
          /\ r_faults' = r_faults + 1
          /\ r_pc' = "except"
          /\ UNCHANGED <<r_logged, r_lines>>
    /\ UNCHANGED <<r_usage, r_generated, r_log_llm, r_handlers, r_closed, r_files, r_agents>>
    /\ UNCHANGED <<driver_vars, not_runtime>>

\* api.log_llm(task_id=..., model=usage_tracking_model.model_name_for_logging,
\* duration_sec=duration, usage=usage_tracking_model.total_usage); reading a
\* missing attribute raises AttributeError inside the try
api_log_llm ==
    /\ r_pc = "log_llm"
    /\ IF HasModelNameForLogging(WrapperOf(d_driver))
       THEN /\ r_log_llm' = Append(r_log_llm,
                  [task_id |-> task, model |-> "model_name_for_logging",
                   duration_sec |-> "duration", usage |-> r_usage])
            /\ r_pc' = "finally"
       ELSE /\ r_pc' = "except"
            /\ UNCHANGED r_log_llm
    /\ UNCHANGED <<r_usage, r_generated, r_logged, r_handlers, r_closed, r_files, r_lines,
                   r_agents, r_faults>>
    /\ UNCHANGED <<driver_vars, not_runtime>>

\* except Exception as e: the [FAILED] line
except_failed ==
    /\ r_pc = "except"
    /\ r_logged' = r_logged \cup {[task |-> task, marker |-> "FAILED"]}
    /\ r_lines' = r_lines \cup Written(r_handlers, task, "FAILED")
    /\ r_pc' = "finally"
    /\ UNCHANGED <<r_usage, r_generated, r_log_llm, r_handlers, r_closed, r_files, r_agents,
                   r_faults>>
    /\ UNCHANGED <<driver_vars, not_runtime>>

\* finally: the [CLEANUP] line; run_agent returns
finally_cleanup ==
    /\ r_pc = "finally"
    /\ r_logged' = r_logged \cup {[task |-> task, marker |-> "CLEANUP"]}
    /\ r_lines' = r_lines \cup Written(r_handlers, task, "CLEANUP")
    /\ r_pc' = "returned"
    /\ UNCHANGED <<r_usage, r_generated, r_log_llm, r_handlers, r_closed, r_files, r_agents,
                   r_faults>>
    /\ UNCHANGED <<driver_vars, not_runtime>>

\* a plausible slip: the driver without its try / except around run_agent
run_agent_ends_unhandled ==
    /\ r_pc \in {"returned", "raised"}
    /\ IF r_pc = "raised"
       THEN /\ d_raised' = d_raised \cup {task}
            /\ d_pc' = "done"
            /\ UNCHANGED d_printed
       ELSE /\ d_pc' = "complete_task"
            /\ UNCHANGED <<d_raised, d_printed>>
    /\ r_pc' = "idle"
    /\ UNCHANGED <<d_driver, d_tasks, d_i, d_calls>>
    /\ UNCHANGED <<r_usage, r_generated, r_log_llm, r_logged, r_handlers, r_closed, r_files,
                   r_lines, r_agents, r_faults>>
    /\ UNCHANGED not_runtime

\* main.py: run_agent returns, or except Exception as e: print(e)
run_agent_ends ==
    /\ r_pc \in {"returned", "raised"}
    /\ IF r_pc = "raised"
       THEN /\ d_raised' = d_raised \cup {task}
            /\ d_printed' = Append(d_printed, task)
       ELSE UNCHANGED <<d_raised, d_printed>>
    /\ d_pc' = "complete_task"
    /\ r_pc' = "idle"
    /\ UNCHANGED <<d_driver, d_tasks, d_i, d_calls>>
    /\ UNCHANGED <<r_usage, r_generated, r_log_llm, r_logged, r_handlers, r_closed, r_files,
                   r_lines, r_agents, r_faults>>
    /\ UNCHANGED not_runtime

RuntimeNext ==
    \/ for_next
    \/ start_task
    \/ call_run_agent
    \/ load_system_prompt_from_yaml
    \/ configure_logging
    \/ create_tools
    \/ construct_agents
    \/ agent_generate
    \/ agent_run
    \/ api_log_llm
    \/ except_failed
    \/ finally_cleanup
    \/ run_agent_ends
    \/ complete_task
    \/ submit_session

InitRuntime == RuntimeInit /\ UsageIdle /\ ToolIdle /\ SandboxIdle /\ SgrIdle

SpecRuntime == InitRuntime /\ [][RuntimeNext]_vars

(***************************************************************************)
(* Claims about the agent runtimes                                         *)
(***************************************************************************)
Marker(t, m) == [task |-> t, marker |-> m]
LogLlmFor(t) == {p \in DOMAIN r_log_llm : r_log_llm[p].task_id = t}

\* C14 as stated: in every runtime, when run_agent returns, the cleanup
\* marker is logged; a run that completed is followed by exactly one log_llm
\* call for the task, with the duration and the model's total usage; a run
\* that raised is logged as failed; and the exception is not re-raised.
C14_Claim ==
    /\ r_pc = "returned" =>
          /\ Marker(task, "CLEANUP") \in r_logged
          /\ IF Marker(task, "SUCCESS") \in r_logged
             THEN /\ Cardinality(LogLlmFor(task)) = 1
                  /\ \A p \in LogLlmFor(task) :
                        /\ r_log_llm[p].usage = r_usage
                        /\ r_log_llm[p].duration_sec = "duration"
             ELSE /\ Marker(task, "FAILED") \in r_logged
                  /\ LogLlmFor(task) = {}
    /\ (r_pc = "raised") => r_agents = <<>>

\* the tasks whose run ended in a configuration-load error: in a runtime that
\* loads the prompt file, run_agent raised before it configured logging
ConfigLoadFailed ==
    IF d_driver \in YamlRuntimes
    THEN {t \in d_raised \cup (IF r_pc = "raised" THEN {task} ELSE {}) :
             Marker(t, "INIT") \notin r_logged}
    ELSE {}

\* C16 as stated: when the prompt file cannot be loaded, no task is started,
\* no task is completed and the session is not submitted.
C16_Original ==
    ConfigLoadFailed # {} =>
       \A p \in DOMAIN d_calls :
          d_calls[p].op \notin {"start_task", "complete_task", "submit_session"}

\* C16 amended: the error leaves run_agent unhandled (no failed or cleanup line
\* for the task) after the task was started; the driver catches and prints
\* it, completes the task, goes on with the remaining tasks and submits the
\* session.
C16_Theorem ==
    /\ \A t \in ConfigLoadFailed :
          /\ Count("start_task", t) = 1
          /\ Marker(t, "FAILED") \notin r_logged
          /\ Marker(t, "CLEANUP") \notin r_logged
          /\ LogLlmFor(t) = {}
          /\ t \in d_raised => \E q \in DOMAIN d_printed : d_printed[q] = t
    /\ d_pc = "done" =>
          /\ Count("submit_session", NoTask) = 1
          /\ \A k \in 1..Processed : OnceEach(d_tasks[k])

C16_Witness ==
    /\ d_pc = "done"
    /\ 1 \in ConfigLoadFailed
    /\ Len(d_tasks) >= 2
    /\ OnceEach(2)
    /\ Count("submit_session", NoTask) = 1

\* C17 as stated: in the hierarchical runtime the agent that is run has the
\* specialist as its managed agent and none of the store tools in its own
\* tool set.
C17_Claim ==
    (d_driver = "hf_store_agent_with_tool_agent" /\ r_agents # <<>>) =>
       \A k \in DOMAIN r_agents :
          r_agents[k].run =>
             /\ r_agents[k].managed_agents = {"OnlineStoreAPICodeAgent"}
             /\ r_agents[k].tools \cap StoreTools = {}

\* C18 as stated: in the runtimes that log to files, a task run has its own
\* log file, every line of the run is written to it, and no line of the run
\* is written to another task's file.
C18_Claim ==
    d_driver \in YamlRuntimes =>
       \A l \in r_logged :
          /\ l.task \in r_files
          /\ [file |-> l.task, task |-> l.task, marker |-> l.marker] \in r_lines
          /\ \A w \in r_lines : w.task = l.task => w.file = l.task

RECURSIVE UsageSum(_, _, _)
UsageSum(h, last, f) ==
    IF h = <<>> THEN 0
    ELSE (IF h[1].task <= last THEN h[1].usage[f] ELSE 0) + UsageSum(Tail(h), last, f)

\* C19: the usage sent with log_llm for a task is, field by field, the sum
\* over every metered call made since the model was constructed, those of
\* the earlier tasks included; from one log_llm call to the next it does not
\* decrease.
C19_Theorem ==
    /\ \A f \in DOMAIN r_usage :
          r_usage[f] = UsageSum(r_generated, Len(d_tasks), f)
    /\ \A p \in DOMAIN r_log_llm :
          \A f \in DOMAIN r_log_llm[p].usage :
             /\ r_log_llm[p].usage[f] =
                   UsageSum(r_generated, r_log_llm[p].task_id, f)
             /\ \A q \in DOMAIN r_log_llm :
                   p < q => r_log_llm[p].usage[f] <= r_log_llm[q].usage[f]

C19_Witness ==
    \E p \in DOMAIN r_log_llm :
       /\ r_log_llm[p].task_id = 2
       /\ \E q \in DOMAIN r_generated : r_generated[q].task = 1
       /\ \E q \in DOMAIN r_generated : r_generated[q].task = 2
       /\ r_log_llm[p].usage = r_usage

\* C20 (one generate call): when the response carries no token usage, the
\* totals and last_usage stay as they were, and the response is returned as
\* received.
C20_Step ==
    (Len(u_history') = Len(u_history) + 1 /\ u_history'[Len(u_history')] = <<>>) =>
       /\ total_usage' = total_usage
       /\ last_usage' = last_usage
       /\ u_returned' = Append(u_returned, [content |-> "ChatMessage",
                                            token_usage |-> <<>>])

\* C20: a generate call whose response has no token-usage metadata leaves
\* total_usage unchanged, leaves last_usage at the previous metering call's
\* value, and returns the underlying response unchanged.
C20_Theorem == [][C20_Step]_vars

C20_Witness ==
    /\ Len(u_history) = 2
    /\ u_history[1] # <<>> /\ u_history[2] = <<>>
    /\ last_usage = <<UsageOf(u_variant, u_history[1][1])>>
    /\ u_returned[2].token_usage = <<>>

\* run_agent is past its logging setup (whose last statement logs [INIT])
AfterLoggingSetup ==
    /\ r_pc # "idle"
    /\ [task |-> task, marker |-> "INIT"] \in r_logged

\* C24: in the dev runtime, after the logging setup of a task run the root
\* logger holds exactly two handlers, this task's file handler and one
\* console handler, and every handler installed by an earlier task run has
\* been closed and removed, however many tasks ran before.
C24_Theorem ==
    (d_driver = "agent_dev" /\ AfterLoggingSetup) =>
       /\ r_handlers = {FileHandler(task), StreamHandler(task)}
       /\ Cardinality(r_handlers) = 2
       /\ r_closed \cap r_handlers = {}
       /\ \A l \in r_logged :
             (l.marker = "INIT" /\ l.task # task) =>
                {FileHandler(l.task), StreamHandler(l.task)} \subseteq r_closed

C24_Witness ==
    /\ d_driver = "agent_dev"
    /\ r_pc = "tools"
    /\ task = 3
    /\ r_closed = {FileHandler(1), StreamHandler(1), FileHandler(2), StreamHandler(2)}
    /\ Cardinality(r_handlers) = 2

====
